---- MODULE Spec2Model ----
(***************************************************************************)
(* Route generation (scripts/generate-routes.ts) and the two watch         *)
(* coordinators (scripts/route-watcher.ts, next-plugin-route-gen.ts).      *)
(*                                                                         *)
(* Strings are sequences of one-character strings, so that the string      *)
(* operations of the source (split, replace, slice, regular expressions)   *)
(* are computed character by character.                                    *)
(***************************************************************************)
EXTENDS Integers, Sequences, FiniteSets, TLC

(***************************************************************************)
(* State                                                                   *)
(***************************************************************************)
VARIABLES
  mode,            \* "oneshot": generate-routes.ts run from the shell,
                   \* "standalone": route-watcher.ts, "plugin": the Next.js plugin
  nodeEnv,         \* process.env.NODE_ENV
  config,          \* getRouteGenConfig()
  files,           \* the page files on disk
  dirOrder,        \* the order in which directories list their entries
  outWritable,     \* whether OUTPUT_FILE can be written
  artifact,        \* content of OUTPUT_FILE
  children,        \* the running generate-routes.ts processes
  childPc,         \* where each of them is: "scan", "emit", "maps" or "write"
  lastExit,        \* how the last generate-routes.ts process ended
  pc,              \* where the watcher process is
  exitCode,        \* exit code of the watcher process, -1 while it runs
  isGenerating,
  hasGenerated,
  watcher,         \* "none", "open" or "closed"
  debounceTimer,   \* the timer handle, 0 for null / undefined
  timers,          \* the pending timers of the event loop
  sigPending,      \* a termination signal waits for the event loop
  notifs,          \* file events chokidar has not delivered yet
  changes,         \* file-system changes made so far
  sinceEvent,      \* ms since the last event was delivered (capped)
  burstEvents,     \* events delivered since the debounce timer last fired
  lastTrigger,     \* sinceEvent and burstEvents when the timer last fired
  dirty,           \* a watched file changed after the last run was started
  selfTriggered,   \* a write of the artifact raised a watch event
  sigHandled,      \* the signal handler has run
  lastOutcome,     \* what generateRoutes logged last: "none", "ok", "failed"
  artifactFrom,    \* the tree the run that wrote the artifact ran over
  options,         \* options.watch of the last withRouteGeneration call
  calls,           \* calls of withRouteGeneration so far
  initialRuns,     \* runs of the generator started by withRouteGeneration
  watchersCreated, \* watchers created by withRouteGeneration
  handlerSets,     \* times the SIGINT / SIGTERM handlers were registered
  pageFile,        \* page-watcher.ts: the page file, its text and who wrote it
  pageEvents,      \* the 'add' / 'change' events chokidar will deliver
  handlers,        \* the event handlers that are suspended at an await
  pageWrites,      \* templates written so far
  overwritten,     \* what the template writes replaced
  saves,           \* saves of the page file by the user
  envPc,           \* add:env: where the command is
  envTodo,         \* the variable names still to be configured
  varConfigs,      \* the configurations collected so far
  envWrites,       \* the writes to .env files and to the env schema, in order
  envExit          \* exit code of the command, -1 while it runs

vars == <<mode, nodeEnv, config, files, dirOrder, outWritable, artifact,
          children, childPc, lastExit, pc, exitCode, isGenerating, hasGenerated,
          watcher, debounceTimer, timers, sigPending, notifs, changes,
          sinceEvent, burstEvents, lastTrigger, dirty, selfTriggered,
          sigHandled, lastOutcome, artifactFrom,
          options, calls, initialRuns, watchersCreated, handlerSets,
          pageFile, pageEvents, handlers, pageWrites, overwritten, saves,
          envPc, envTodo, varConfigs, envWrites, envExit>>

fsVars == <<files, dirOrder, outWritable>>
procVars == <<pc, exitCode, isGenerating, hasGenerated, watcher,
              debounceTimer, sigPending>>
debounceVars == <<sinceEvent, burstEvents, lastTrigger>>
pluginVars == <<options, calls, initialRuns, watchersCreated, handlerSets>>
pageVars == <<pageFile, pageEvents, handlers, pageWrites, overwritten, saves>>
envVars == <<envPc, envTodo, varConfigs, envWrites, envExit>>


(***************************************************************************)
(* String helpers (JavaScript String / Array built-ins)                    *)
(***************************************************************************)

RECURSIVE Cat(_)
\* Array.prototype.join('') : concatenation of a sequence of strings
Cat(parts) ==
  IF parts = <<>> THEN <<>> ELSE Head(parts) \o Cat(Tail(parts))

RECURSIVE JoinWith(_, _)
\* Array.prototype.join(sep)
JoinWith(parts, sep) ==
  IF parts = <<>> THEN <<>>
  ELSE IF Len(parts) = 1 THEN parts[1]
  ELSE parts[1] \o sep \o JoinWith(Tail(parts), sep)

RECURSIVE SplitFrom(_, _, _, _)
SplitFrom(s, seps, i, cur) ==
  IF i > Len(s) THEN <<cur>>
  ELSE IF s[i] \in seps THEN <<cur>> \o SplitFrom(s, seps, i + 1, <<>>)
  ELSE SplitFrom(s, seps, i + 1, Append(cur, s[i]))

\* String.prototype.split on a one-character separator class
split(s, seps) == SplitFrom(s, seps, 1, <<>>)

\* Array.prototype.filter(Boolean) on strings: drops the empty ones
filterBoolean(parts) == SelectSeq(parts, LAMBDA p : p # <<>>)

\* s has p as a substring starting at index i
StartsWithAt(s, p, i) ==
  /\ i >= 1
  /\ i + Len(p) - 1 <= Len(s)
  /\ SubSeq(s, i, i + Len(p) - 1) = p

\* String.prototype.includes
includes(s, p) == \E i \in 1..(Len(s) + 1) : StartsWithAt(s, p, i)

LowerCase == <<"a","b","c","d","e","f","g","h","i","j","k","l","m",
               "n","o","p","q","r","s","t","u","v","w","x","y","z">>
UpperCase == <<"A","B","C","D","E","F","G","H","I","J","K","L","M",
               "N","O","P","Q","R","S","T","U","V","W","X","Y","Z">>

\* String.prototype.toUpperCase on one character
toUpperCase(c) ==
  IF \E k \in 1..26 : LowerCase[k] = c
  THEN UpperCase[CHOOSE k \in 1..26 : LowerCase[k] = c]
  ELSE c

\* word.charAt(0).toUpperCase() + word.slice(1)
capitalize(word) ==
  IF word = <<>> THEN <<>> ELSE <<toUpperCase(word[1])>> \o Tail(word)

\* the elements of a sequence
Range(seq) == {seq[i] : i \in 1..Len(seq)}

(***************************************************************************)
(* String constants of the source                                          *)
(***************************************************************************)
AdminPrefix == <<"/","a","d","m","i","n","/">>
DefaultRoutePrefix == <<"/","a","d","m","i","n">>
AppsMarker == <<"(","a","p","p","s",")">>
PageFileName == <<"p","a","g","e",".","t","s","x">>
DetailSuffix == <<"D","e","t","a","i","l">>
HomeId == <<"h","o","m","e">>
StringType == <<"s","t","r","i","n","g">>
NumberType == <<"n","u","m","b","e","r">>
PathSeps == {"/", "\\"}

(***************************************************************************)
(* generate-routes.ts : pathToRouteId                                      *)
(***************************************************************************)

\* part.startsWith('[') && part.endsWith(']')
isParamPart(part) ==
  /\ Len(part) >= 1
  /\ part[1] = "["
  /\ part[Len(part)] = "]"

\* part.slice(1, -1)
slice1(part) == SubSeq(part, 2, Len(part) - 1)

\* a loop that takes the last part only as a parameter
NumTrailingParams_last(parts, i) ==
  IF i > 0 /\ isParamPart(parts[i]) THEN 1 ELSE 0

RECURSIVE NumTrailingParams(_, _)
\* how many parts the backward loop consumes before its break
NumTrailingParams(parts, i) ==
  IF i = 0 THEN 0
  ELSE IF isParamPart(parts[i]) THEN 1 + NumTrailingParams(parts, i - 1)
  ELSE 0

\* resourceName.split(/[-_]/).map(...).join('')
camelCase(resourceName) ==
  LET words == split(resourceName, {"-", "_"})
  IN Cat([i \in 1..Len(words) |->
            IF i = 1 THEN words[i] ELSE capitalize(words[i])])

pathToRouteId(path) ==
  LET stripped == IF StartsWithAt(path, AdminPrefix, 1)
                  THEN SubSeq(path, Len(AdminPrefix) + 1, Len(path))
                  ELSE path
      parts == filterBoolean(split(stripped, {"/"}))
      n == Len(parts)
      k == NumTrailingParams(parts, n)
      paramParts == [j \in 1..k |-> slice1(parts[n - k + j])]
      resourceName == IF k = n THEN <<>> ELSE parts[n - k]
      camelResource == camelCase(resourceName)
      paramSuffix == Cat([j \in 1..k |-> capitalize(paramParts[j])])
  IN IF n = 0 THEN HomeId
     ELSE IF k > 0 THEN camelResource \o paramSuffix \o DetailSuffix
     ELSE camelResource

(***************************************************************************)
(* generate-routes.ts : extractRouteFromPath                               *)
(***************************************************************************)

\* a path string cut into its segments
pathSegments(p) == filterBoolean(split(p, PathSeps))

RECURSIVE RunLength(_, _)
\* length of the longest run of non-separator characters starting at i
RunLength(s, i) ==
  IF i > Len(s) \/ s[i] \in PathSeps THEN 0 ELSE 1 + RunLength(s, i + 1)

\* positions where /\(apps\)[\\/]([^\\/]+)/ matches
AppMatchAt(pagesDir, i) ==
  /\ StartsWithAt(pagesDir, AppsMarker, i)
  /\ i + Len(AppsMarker) <= Len(pagesDir)
  /\ pagesDir[i + Len(AppsMarker)] \in PathSeps
  /\ RunLength(pagesDir, i + Len(AppsMarker) + 1) >= 1

\* a prefix that is not taken from the root
routePrefixOf_default(pagesDir) == DefaultRoutePrefix

routePrefixOf(pagesDir) ==
  LET hits == {i \in 1..Len(pagesDir) : AppMatchAt(pagesDir, i)}
      first == CHOOSE i \in hits : \A j \in hits : i <= j
      from == first + Len(AppsMarker) + 1
  IN IF includes(pagesDir, AppsMarker) /\ hits # {}
     THEN <<"/">> \o SubSeq(pagesDir, from, from + RunLength(pagesDir, from) - 1)
     ELSE DefaultRoutePrefix

\* path.relative(pagesDir, filePath).split(/[/\\]/).filter(Boolean), for a
\* file below pagesDir; filePath is a sequence of segments
relativeParts(pagesDir, filePath) ==
  SubSeq(filePath, Len(pathSegments(pagesDir)) + 1, Len(filePath))

extractRouteFromPath(filePath, pagesDir) ==
  LET pathParts == relativeParts(pagesDir, filePath)
      routeParts == SubSeq(pathParts, 1, Len(pathParts) - 1)
  IN routePrefixOf(pagesDir) \o <<"/">> \o JoinWith(routeParts, <<"/">>)

(***************************************************************************)
(* generate-routes.ts : the bracket scan of scanPages                      *)
(***************************************************************************)

\* index of the first ']' at or after i, 0 when there is none
FirstClose(route, i) ==
  LET js == {j \in i..Len(route) : route[j] = "]"}
  IN IF js = {} THEN 0 ELSE CHOOSE j \in js : \A k \in js : j <= k

RECURSIVE paramMatchesFrom(_, _)
\* route.match(/\[([^\]]+)\]/g) from index i on
paramMatchesFrom(route, i) ==
  IF i > Len(route) THEN <<>>
  ELSE LET j == FirstClose(route, i + 1)
       IN IF route[i] = "[" /\ j >= i + 2
          THEN <<SubSeq(route, i, j)>> \o paramMatchesFrom(route, j + 1)
          ELSE paramMatchesFrom(route, i + 1)

paramMatches(route) == paramMatchesFrom(route, 1)

(***************************************************************************)
(* Ordered maps: a JavaScript object is a sequence of <<key, value>> pairs *)
(* in insertion order; assigning an existing key keeps its position.       *)
(***************************************************************************)
Keys(m) == [i \in 1..Len(m) |-> m[i][1]]

HasKey(m, k) == \E i \in 1..Len(m) : m[i][1] = k

\* m[k], for a key that is present
Get(m, k) == m[CHOOSE i \in 1..Len(m) : m[i][1] = k][2]

\* m[k] = v
Put(m, k, v) ==
  IF HasKey(m, k)
  THEN [i \in 1..Len(m) |-> IF m[i][1] = k THEN <<k, v>> ELSE m[i]]
  ELSE Append(m, <<k, v>>)

(***************************************************************************)
(* Character classes of the regular expressions                            *)
(***************************************************************************)
Digits == {"0","1","2","3","4","5","6","7","8","9"}
WordChars == Range(LowerCase) \cup Range(UpperCase) \cup Digits \cup {"_"}
SpaceChars == {" ", "\n", "\t", "\r"}

RECURSIVE SkipSpaces(_, _)
\* \s* from index i: the index of the first non-space character
SkipSpaces(s, i) ==
  IF i <= Len(s) /\ s[i] \in SpaceChars THEN SkipSpaces(s, i + 1) ELSE i

RECURSIVE WordEnd(_, _)
\* \w+ from index i: the index after the run of word characters
WordEnd(s, i) ==
  IF i <= Len(s) /\ s[i] \in WordChars THEN WordEnd(s, i + 1) ELSE i

RECURSIVE IndexOfFrom(_, _, _)
\* index of the first character of set cs at or after i, Len(s)+1 if none
IndexOfFrom(s, cs, i) ==
  IF i > Len(s) \/ s[i] \in cs THEN i ELSE IndexOfFrom(s, cs, i + 1)

RECURSIVE TrimEnd(_)
TrimEnd(s) ==
  IF s # <<>> /\ s[Len(s)] \in SpaceChars
  THEN TrimEnd(SubSeq(s, 1, Len(s) - 1)) ELSE s

\* String.prototype.trim
trim(s) == LET t == TrimEnd(s) IN SubSeq(t, SkipSpaces(t, 1), Len(t))

(***************************************************************************)
(* generate-routes.ts : parseCreatePageTypes                               *)
(***************************************************************************)
CreatePageWord == <<"c","r","e","a","t","e","P","a","g","e">>
SearchParamsWord == <<"s","e","a","r","c","h","P","a","r","a","m","s",":">>
EmptyObject == <<"{","}">>

\* /createPage\s*<([^>]+)>\s*\(/ matching at index p
GenericMatchAt(s, p) ==
  /\ StartsWithAt(s, CreatePageWord, p)
  /\ LET a == SkipSpaces(s, p + Len(CreatePageWord))
         g == IndexOfFrom(s, {">"}, a + 1)
         b == SkipSpaces(s, g + 1)
     IN /\ a <= Len(s) /\ s[a] = "<"
        /\ g <= Len(s) /\ g >= a + 2
        /\ b <= Len(s) /\ s[b] = "("

\* genericMatch[1], or <<>> with matched = FALSE
genericMatch(s) ==
  LET hits == {p \in 1..Len(s) : GenericMatchAt(s, p)}
      p == CHOOSE q \in hits : \A r \in hits : q <= r
      a == SkipSpaces(s, p + Len(CreatePageWord))
      g == IndexOfFrom(s, {">"}, a + 1)
  IN IF hits = {} THEN [matched |-> FALSE, generics |-> <<>>]
     ELSE [matched |-> TRUE, generics |-> SubSeq(s, a + 1, g - 1)]

RECURSIVE SplitGenerics(_, _, _, _, _)
\* the comma split of lines 113-131: depth counts braces, angleDepth
\* angle brackets, current is the part being collected
SplitGenerics(generics, i, depth, angleDepth, current) ==
  IF i > Len(generics)
  THEN IF trim(current) # <<>> THEN <<trim(current)>> ELSE <<>>
  ELSE LET char == generics[i]
           d == IF char = "{" THEN depth + 1
                ELSE IF char = "}" THEN depth - 1 ELSE depth
           a == IF char = "<" THEN angleDepth + 1
                ELSE IF char = ">" THEN angleDepth - 1 ELSE angleDepth
       IN IF char = "," /\ d = 0 /\ a = 0
          THEN <<trim(current)>> \o SplitGenerics(generics, i + 1, d, a, <<>>)
          ELSE SplitGenerics(generics, i + 1, d, a, Append(current, char))

RECURSIVE ParamRegexFrom(_, _, _)
\* /(\w+)\s*:\s*(\w+)/g from index i, accumulating result.params
ParamRegexFrom(s, i, acc) ==
  IF i > Len(s) THEN acc
  ELSE IF s[i] \notin WordChars THEN ParamRegexFrom(s, i + 1, acc)
  ELSE LET e == WordEnd(s, i)
           c == SkipSpaces(s, e)
           t == SkipSpaces(s, c + 1)
       IN IF c <= Len(s) /\ s[c] = ":" /\ t <= Len(s) /\ s[t] \in WordChars
          THEN ParamRegexFrom(s, WordEnd(s, t),
                 Put(acc, SubSeq(s, i, e - 1), SubSeq(s, t, WordEnd(s, t) - 1)))
          ELSE ParamRegexFrom(s, e, acc)

RECURSIVE SearchParamRegexFrom(_, _, _)
\* /(\w+)\??\s*:\s*([^;]+)/g from index i, accumulating result.searchParams
SearchParamRegexFrom(s, i, acc) ==
  IF i > Len(s) THEN acc
  ELSE IF s[i] \notin WordChars THEN SearchParamRegexFrom(s, i + 1, acc)
  ELSE LET e == WordEnd(s, i)
           q == IF e <= Len(s) /\ s[e] = "?" THEN e + 1 ELSE e
           c == SkipSpaces(s, q)
           t == SkipSpaces(s, c + 1)
           \* [^;]+ needs one character: \s* gives one back when it ate all
           from == IF t <= Len(s) /\ s[t] # ";" THEN t ELSE t - 1
           to == IndexOfFrom(s, {";"}, from + 1)
       IN IF c <= Len(s) /\ s[c] = ":" /\ from >= c + 1
          THEN SearchParamRegexFrom(s, to,
                 Put(acc, SubSeq(s, i, e - 1), trim(SubSeq(s, from, to - 1))))
          ELSE SearchParamRegexFrom(s, e, acc)

\* /searchParams:\s*\{([^}]+)\}/s matching at index p
ConfigMatchAt(s, p) ==
  /\ StartsWithAt(s, SearchParamsWord, p)
  /\ LET a == SkipSpaces(s, p + Len(SearchParamsWord))
         g == IndexOfFrom(s, {"}"}, a + 1)
     IN /\ a <= Len(s) /\ s[a] = "{"
        /\ g <= Len(s) /\ g >= a + 2

\* searchParamsConfigMatch[1]
searchParamsConfigMatch(s) ==
  LET hits == {p \in 1..Len(s) : ConfigMatchAt(s, p)}
      p == CHOOSE q \in hits : \A r \in hits : q <= r
      a == SkipSpaces(s, p + Len(SearchParamsWord))
      g == IndexOfFrom(s, {"}"}, a + 1)
  IN IF hits = {} THEN [matched |-> FALSE, content |-> <<>>]
     ELSE [matched |-> TRUE, content |-> SubSeq(s, a + 1, g - 1)]

\* the remainder r matches \s*as\s*(.+)$ ; AsHint is the captured (.+)
AsMatches(r) ==
  LET k == SkipSpaces(r, 1)
  IN StartsWithAt(r, <<"a","s">>, k) /\ k + 2 <= Len(r)

AsHint(r) ==
  LET k == SkipSpaces(r, 1)
      h == SkipSpaces(r, k + 2)
  IN IF h <= Len(r) THEN SubSeq(r, h, Len(r)) ELSE SubSeq(r, Len(r), Len(r))

\* trimmed.match(/(\w+)\s*:\s*(.+?)(?:\s*as\s*(.+))?$/) : the pair
\* <<name, finalType>> of lines 181-186, or <<>> when there is no match
ConfigLineEntry(trimmed) ==
  LET starts == {i \in 1..Len(trimmed) :
                   /\ trimmed[i] \in WordChars
                   /\ LET c == SkipSpaces(trimmed, WordEnd(trimmed, i))
                      IN c < Len(trimmed) /\ trimmed[c] = ":"}
      i == CHOOSE j \in starts : \A k \in starts : j <= k
      e == WordEnd(trimmed, i)
      c == SkipSpaces(trimmed, e)
      \* \s* after the colon gives back one character when it ate the rest
      v == IF SkipSpaces(trimmed, c + 1) <= Len(trimmed)
           THEN SkipSpaces(trimmed, c + 1) ELSE Len(trimmed)
      \* (.+?) is the shortest value after which the `as` group matches
      cuts == {l \in v..(Len(trimmed) - 1) :
                 AsMatches(SubSeq(trimmed, l + 1, Len(trimmed)))}
      cut == IF cuts = {} THEN Len(trimmed)
             ELSE CHOOSE l \in cuts : \A m \in cuts : l <= m
      value == SubSeq(trimmed, v, cut)
      typeHint == IF cuts = {} THEN <<>>
                  ELSE trim(AsHint(SubSeq(trimmed, cut + 1, Len(trimmed))))
  IN IF starts = {} THEN <<>>
     ELSE <<SubSeq(trimmed, i, e - 1),
            IF typeHint # <<>> THEN typeHint ELSE trim(value)>>

CommentMark == <<"/","/">>

RECURSIVE ConfigLines(_, _)
\* the loop of lines 176-188 (and of lines 292-303) over the split lines
ConfigLines(lines, acc) ==
  IF lines = <<>> THEN acc
  ELSE LET trimmed == trim(Head(lines))
           entry == ConfigLineEntry(trimmed)
       IN IF trimmed = <<>> \/ StartsWithAt(trimmed, CommentMark, 1)
             \/ entry = <<>>
          THEN ConfigLines(Tail(lines), acc)
          ELSE ConfigLines(Tail(lines), Put(acc, entry[1], entry[2]))

\* the searchParams object read from a `searchParams: {...}` config object
configSearchParams(configContent) ==
  ConfigLines(split(configContent, {",", "\n"}), <<>>)

\* an extractor that reports a search parameter for every page
parseCreatePageTypes_guessing(fileContent) ==
  [hasParams |-> FALSE,
   params |-> <<>>,
   hasSearchParams |-> TRUE,
   searchParams |-> << << <<"q">>, StringType>> >>]

\* result of parseCreatePageTypes; hasParams / hasSearchParams tell whether
\* result.params / result.searchParams were assigned at all
parseCreatePageTypes(fileContent) ==
  LET gm == genericMatch(fileContent)
      parts == IF gm.matched
               THEN SplitGenerics(gm.generics, 1, 0, 0, <<>>) ELSE <<>>
      paramsStr == IF Len(parts) >= 1 THEN trim(parts[1]) ELSE <<>>
      hasParams == paramsStr # <<>> /\ paramsStr # EmptyObject
                   /\ paramsStr[1] = "{"
      searchStr == IF Len(parts) >= 2 THEN trim(parts[2]) ELSE <<>>
      hasGenericSearch == searchStr # <<>> /\ searchStr # EmptyObject
                          /\ searchStr[1] = "{"
      genericSearch == IF hasGenericSearch
                       THEN SearchParamRegexFrom(searchStr, 1, <<>>) ELSE <<>>
      cm == searchParamsConfigMatch(fileContent)
      useFallback == genericSearch = <<>> /\ cm.matched
  IN [hasParams |-> hasParams,
      params |-> IF hasParams THEN ParamRegexFrom(paramsStr, 1, <<>>) ELSE <<>>,
      hasSearchParams |-> hasGenericSearch \/ useFallback,
      searchParams |-> IF useFallback THEN configSearchParams(cm.content)
                       ELSE genericSearch]

(***************************************************************************)
(* Configuration (route-gen.config.ts)                                     *)
(***************************************************************************)
cwd == <<"/","w">>
AdminPagesDir == <<"a","p","p","/","(","a","p","p","s",")","/","a","d","m","i","n","/","(","p","a","g","e","s",")">>
ExtraPagesDir == <<"a","p","p","/","(","a","p","p","s",")","/","a","d","m","i","n","/","(","e","x","t","r","a",")">>
DefaultOutputFile == <<"a","p","p","/","(","a","p","p","s",")","/","a","d","m","i","n","/","l","i","b","/","r","o","u","t","e","s",".","d",".","t","s">>
PageOutputFile == <<"a","p","p","/","(","a","p","p","s",")","/","a","d","m","i","n","/","(","p","a","g","e","s",")","/","g","e","n","/","p","a","g","e",".","t","s","x">>
BrandDetailPath == <<"/","a","d","m","i","n","/","b","r","a","n","d","s","/","[","i","d","]">>
BrandDetailId == <<"b","r","a","n","d","D","e","t","a","i","l">>

\* defaultConfig; include is the empty list where the source has undefined
defaultConfig ==
  [pagesDirs |-> <<AdminPagesDir>>,
   outputFile |-> DefaultOutputFile,
   exclude |-> <<>>,
   include |-> <<>>,
   routeIdMap |-> <<>>,
   watch |-> TRUE]

\* getRouteGenConfig: { ...defaultConfig, ...userConfig }
getRouteGenConfig(userConfig) ==
  [k \in DOMAIN defaultConfig |->
     IF k \in DOMAIN userConfig THEN userConfig[k] ELSE defaultConfig[k]]

\* the user configurations explored: none, a second root of the same
\* application, a routeIdMap override, an output file named page.tsx
\* below a pages directory
UserConfigs ==
  { [watch |-> TRUE],
    [pagesDirs |-> <<AdminPagesDir, ExtraPagesDir>>],
    [routeIdMap |-> << <<BrandDetailPath, BrandDetailId>> >>],
    [outputFile |-> PageOutputFile] }

\* the exclude pattern `(`, which is no regular expression
BrokenFilterConfig == [exclude |-> << <<"(">> >>]

\* the user configurations the watchers are run under
WatchedUserConfigs ==
  { [watch |-> TRUE],
    [outputFile |-> PageOutputFile] }

\* path.join(process.cwd(), p)
joinCwd(p) == cwd \o <<"/">> \o p

PAGES_DIRS(cfg) == [i \in 1..Len(cfg.pagesDirs) |-> joinCwd(cfg.pagesDirs[i])]

OUTPUT_FILE(cfg) == joinCwd(cfg.outputFile)

(***************************************************************************)
(* File system                                                             *)
(*   files maps the path of every page file (a sequence of segments) to    *)
(*   its text and its read permission; artifact is the content of the      *)
(*   output file, NoFile before the first write.                           *)
(***************************************************************************)
NoFile == [missing |-> TRUE]

PlainText == <<"<","d","i","v","/",">">>
GenericText == <<"c","r","e","a","t","e","P","a","g","e","<","{","i","d",":","n","u","m","b","e","r",";","x",":","s","t","r","i","n","g","}",",","{","t","a","b",":","'","a","'","|","'","b","'","}",">","(","{","}",")">>
ConfigText == <<"c","r","e","a","t","e","P","a","g","e","(","{","s","e","a","r","c","h","P","a","r","a","m","s",":","{","s","o","r","t",":","'","n","'"," ","a","s"," ","'","n","'","|","'","d","'","}","}",")">>

SettingsPage == pathSegments(joinCwd(AdminPagesDir)) \o << <<"s","e","t","t","i","n","g","s">>, PageFileName>>
BrandIdPage == pathSegments(joinCwd(AdminPagesDir)) \o << <<"b","r","a","n","d","s">>, <<"[","i","d","]">>, PageFileName>>
BrandSettingsPage == pathSegments(joinCwd(AdminPagesDir)) \o << <<"b","r","a","n","d","s">>, <<"s","e","t","t","i","n","g","s">>, PageFileName>>
ExtraSettingsPage == pathSegments(joinCwd(ExtraPagesDir)) \o << <<"s","e","t","t","i","n","g","s">>, PageFileName>>

\* the page files that may exist, and what each may be created as
PagePaths == {SettingsPage, BrandIdPage, BrandSettingsPage, ExtraSettingsPage}

PageVariants(p) ==
  IF p = BrandIdPage
  THEN {[text |-> GenericText, readable |-> TRUE],
        [text |-> PlainText, readable |-> TRUE],
        [text |-> GenericText, readable |-> FALSE]}
  ELSE IF p = SettingsPage
  THEN {[text |-> ConfigText, readable |-> TRUE]}
  ELSE {[text |-> PlainText, readable |-> TRUE]}

\* the texts an edit may leave in a page file
PageTexts(p) == {v.text : v \in PageVariants(p)}

\* text of the generated artifact when it is read as a page file: it holds
\* neither `createPage` nor `searchParams:`
ArtifactAsPageText == <<"e","x","p","o","r","t"," ","c","o","n","s","t"," ","r","o","u","t","e","s">>

\* every file of the tree: the page files and the artifact, once written
AllFiles(fs, art, cfg) ==
  IF art = NoFile THEN fs
  ELSE [p \in DOMAIN fs \cup {pathSegments(OUTPUT_FILE(cfg))} |->
          IF p = pathSegments(OUTPUT_FILE(cfg))
          THEN [text |-> ArtifactAsPageText, readable |-> TRUE]
          ELSE fs[p]]

IsPrefix(a, b) == Len(a) <= Len(b) /\ SubSeq(b, 1, Len(a)) = a

\* fs.existsSync(dir) for a directory: it holds some file
existsSync(tree, dir) == \E p \in DOMAIN tree : IsPrefix(dir, p) /\ Len(p) > Len(dir)

\* the order in which a directory lists its entries is a property of the
\* file system: the entry names in this ranking, forwards or backwards
NameRanking == << <<"w">>, <<"a","p","p">>, <<"(","a","p","p","s",")">>, <<"a","d","m","i","n">>, <<"(","e","x","t","r","a",")">>, <<"(","p","a","g","e","s",")">>, <<"l","i","b">>, <<"b","r","a","n","d","s">>, <<"(","a","u","t","h",")">>, <<"2","f","a">>, <<"[","i","d","]">>, <<"[","i","d","d","]">>, <<"h","o","m","e">>, <<"v","1",".","0">>, <<"b","r","a","n","d","_","i","t","e","m","s">>, <<"e","d","i","t">>, <<"g","e","n">>, <<"p","a","g","e","s">>, <<"s","h","o","p">>, <<"s","r","c">>, <<"u","s","e","r","-","p","r","o","f","i","l","e","s">>, <<"s","e","t","t","i","n","g","s">>, <<"p","a","g","e",".","t","s","x">>, <<"r","o","u","t","e","s",".","d",".","t","s">> >>

RECURSIVE Reverse(_)
Reverse(seq) == IF seq = <<>> THEN <<>> ELSE Append(Reverse(Tail(seq)), Head(seq))

\* fs.readdirSync(dir, { withFileTypes: true }) : names and isDirectory()
readdirSync(tree, order, dir) ==
  LET names == {p[Len(dir) + 1] : p \in {q \in DOMAIN tree : IsPrefix(dir, q) /\ Len(q) > Len(dir)}}
      ranked == SelectSeq(NameRanking, LAMBDA n : n \in names)
      listed == IF order = "forward" THEN ranked ELSE Reverse(ranked)
  IN [i \in 1..Len(listed) |->
        [name |-> listed[i],
         isDirectory |-> Append(dir, listed[i]) \notin DOMAIN tree]]

(***************************************************************************)
(* generate-routes.ts : shouldIncludeRoute, getRouteId, scanPages          *)
(***************************************************************************)

\* The patterns of exclude and include are written with literal characters,
\* `.`, a leading `^`, a trailing `$` and parentheses.

\* how many times character c occurs in s
Count(s, c) == Cardinality({i \in 1..Len(s) : s[i] = c})

\* new RegExp(pattern) throws a SyntaxError: a group that is not closed or
\* a `)` without its `(`
RegExpThrows(pattern) == Count(pattern, "(") # Count(pattern, ")")

\* route.match(new RegExp(pattern)) is not null
RegExpMatches(route, pattern) ==
  LET fromStart == Len(pattern) >= 1 /\ pattern[1] = "^"
      toEnd == Len(pattern) >= 1 /\ pattern[Len(pattern)] = "$"
      body == SubSeq(pattern, IF fromStart THEN 2 ELSE 1,
                     IF toEnd THEN Len(pattern) - 1 ELSE Len(pattern))
  IN \E i \in 1..(Len(route) + 1) :
        /\ i + Len(body) - 1 <= Len(route)
        /\ \A k \in 1..Len(body) :
              body[k] = route[i + k - 1] \/ (body[k] = "." /\ route[i + k - 1] # "\n")
        /\ fromStart => i = 1
        /\ toEnd => i + Len(body) - 1 = Len(route)

\* route.includes(pattern) || route.match(new RegExp(pattern)): "hit",
\* "miss", or "throw" when the pattern is not a regular expression
matchesPattern(route, pattern) ==
  IF includes(route, pattern) THEN "hit"
  ELSE IF RegExpThrows(pattern) THEN "throw"
  ELSE IF RegExpMatches(route, pattern) THEN "hit"
  ELSE "miss"

RECURSIVE firstMatch(_, _, _)
\* the for loops of lines 201-205 and 210-214: they end at the first
\* pattern that matches or throws
firstMatch(route, patterns, i) ==
  IF i > Len(patterns) THEN "miss"
  ELSE IF matchesPattern(route, patterns[i]) # "miss"
  THEN matchesPattern(route, patterns[i])
  ELSE firstMatch(route, patterns, i + 1)

\* a filter that looks at the include list before the exclude list
shouldIncludeRoute_includeFirst(cfg, route) ==
  IF Len(cfg.include) > 0
  THEN firstMatch(route, cfg.include, 1) = "hit"
  ELSE firstMatch(route, cfg.exclude, 1) # "hit"

\* the value shouldIncludeRoute returns, when it returns
shouldIncludeRoute(cfg, route) ==
  IF firstMatch(route, cfg.exclude, 1) = "hit"
  THEN FALSE
  ELSE IF Len(cfg.include) > 0
  THEN firstMatch(route, cfg.include, 1) = "hit"
  ELSE TRUE

\* shouldIncludeRoute throws instead of returning
shouldIncludeThrows(cfg, route) ==
  \/ firstMatch(route, cfg.exclude, 1) = "throw"
  \/ /\ firstMatch(route, cfg.exclude, 1) = "miss"
     /\ Len(cfg.include) > 0
     /\ firstMatch(route, cfg.include, 1) = "throw"

\* the derived id, whatever routeIdMap holds
getRouteId_generated(cfg, route, generatedId) == generatedId

getRouteId(cfg, route, generatedId) ==
  IF HasKey(cfg.routeIdMap, route) /\ Get(cfg.routeIdMap, route) # <<>>
  THEN Get(cfg.routeIdMap, route)
  ELSE generatedId

RECURSIVE PathParams(_, _, _)
\* the forEach of lines 274-278 over paramMatches
PathParams(matches, extracted, acc) ==
  IF matches = <<>> THEN acc
  ELSE LET paramName == slice1(Head(matches))
           type == IF extracted.hasParams /\ HasKey(extracted.params, paramName)
                      /\ Get(extracted.params, paramName) # <<>>
                   THEN Get(extracted.params, paramName)
                   ELSE StringType
       IN PathParams(Tail(matches), extracted, Put(acc, paramName, type))

\* lines 281-305: the searchParams of a page whose text was read
ScannedSearchParams(content, extracted) ==
  IF extracted.hasSearchParams /\ extracted.searchParams # <<>>
  THEN extracted.searchParams
  ELSE LET cm == searchParamsConfigMatch(content)
       IN IF cm.matched THEN configSearchParams(cm.content) ELSE <<>>

\* lines 252-316: the RouteInfo pushed for one page file, <<>> when the
\* route is filtered out
PageRouteInfo(tree, cfg, fullPath, pagesDir) ==
  LET route == extractRouteFromPath(fullPath, pagesDir)
      routeId == getRouteId(cfg, route, pathToRouteId(route))
      file == tree[fullPath]
      extracted == parseCreatePageTypes(file.text)
  IN IF ~shouldIncludeRoute(cfg, route) THEN <<>>
     ELSE << [routeId |-> routeId,
              path |-> route,
              \* readFileSync throws for an unreadable file: the catch
              \* leaves params and searchParams as initialised
              params |-> IF file.readable
                         THEN PathParams(paramMatches(route), extracted, <<>>)
                         ELSE <<>>,
              searchParams |-> IF file.readable
                               THEN ScannedSearchParams(file.text, extracted)
                               ELSE <<>>,
              filePath |-> fullPath] >>

RECURSIVE scanPages(_, _, _, _, _)
\* depth-first walk in the order readdirSync lists the entries
scanPages(tree, order, cfg, dir, pagesDir) ==
  IF ~existsSync(tree, dir) THEN <<>>
  ELSE LET entries == readdirSync(tree, order, dir)
       IN Cat([i \in 1..Len(entries) |->
                 IF entries[i].isDirectory
                 THEN scanPages(tree, order, cfg, Append(dir, entries[i].name), pagesDir)
                 ELSE IF entries[i].name = PageFileName
                 THEN PageRouteInfo(tree, cfg, Append(dir, entries[i].name), pagesDir)
                 ELSE <<>>])

\* main, lines 596-607: allRoutes over every configured directory
CollectAllRoutes(tree, order, cfg) ==
  Cat([i \in 1..Len(PAGES_DIRS(cfg)) |->
         scanPages(tree, order, cfg,
                   pathSegments(PAGES_DIRS(cfg)[i]), PAGES_DIRS(cfg)[i])])

\* an exception escapes scanPages, and main with it: shouldIncludeRoute
\* throws for a page file that the walk visits
CollectionThrows(tree, cfg) ==
  \E k \in 1..Len(PAGES_DIRS(cfg)) : \E f \in DOMAIN tree :
     /\ IsPrefix(pathSegments(PAGES_DIRS(cfg)[k]), f)
     /\ f[Len(f)] = PageFileName
     /\ shouldIncludeThrows(cfg, extractRouteFromPath(f, PAGES_DIRS(cfg)[k]))

(***************************************************************************)
(* generate-routes.ts : generateRoutesFile                                 *)
(*   A type shape `{ k: t; ... }` is the sequence of its <<k, t>> entries, *)
(*   `{}` the empty sequence; the artifact is the record of its sections.  *)
(***************************************************************************)

\* lines 343-350 and 464-470
ParamsShape(params) ==
  [i \in 1..Len(params) |->
     <<params[i][1], IF params[i][2] = NumberType THEN NumberType ELSE StringType>>]

\* /createPage\s*<[^,]+,\s*\{([^}]+(?:\}[^}]*)*)\}\s*>/s matching at p with
\* the closing brace of the group at e
EmitMatchAt(s, p, e) ==
  /\ StartsWithAt(s, CreatePageWord, p)
  /\ LET a == SkipSpaces(s, p + Len(CreatePageWord))
         c == IndexOfFrom(s, {","}, a + 1)
         b == SkipSpaces(s, c + 1)
         g == SkipSpaces(s, e + 1)
     IN /\ a <= Len(s) /\ s[a] = "<"
        /\ c <= Len(s) /\ c >= a + 2
        /\ b <= Len(s) /\ s[b] = "{"
        /\ b + 1 <= Len(s) /\ s[b + 1] # "}"
        /\ e >= b + 2 /\ e <= Len(s) /\ s[e] = "}"
        /\ g <= Len(s) /\ s[g] = ">"

\* genericMatch[1] of lines 359-362: leftmost start, longest group
emitGenericMatch(s) ==
  LET hits == {p \in 1..Len(s) : \E e \in 1..Len(s) : EmitMatchAt(s, p, e)}
      p == CHOOSE q \in hits : \A r \in hits : q <= r
      ends == {e \in 1..Len(s) : EmitMatchAt(s, p, e)}
      e == CHOOSE x \in ends : \A y \in ends : y <= x
      b == SkipSpaces(s, IndexOfFrom(s, {","},
                 SkipSpaces(s, p + Len(CreatePageWord)) + 1) + 1)
  IN IF hits = {} THEN [matched |-> FALSE, searchTypeStr |-> <<>>]
     ELSE [matched |-> TRUE, searchTypeStr |-> SubSeq(s, b + 1, e - 1)]

RECURSIVE ScanTypeValue(_, _, _, _, _, _)
\* the inner loop of lines 390-414: the position it stops at and typeValue
ScanTypeValue(s, pos, depth, inString, stringChar, typeValue) ==
  IF pos > Len(s) THEN [pos |-> pos, typeValue |-> typeValue]
  ELSE LET char == s[pos]
       IN IF ~inString /\ char \in {"'", "\""}
          THEN ScanTypeValue(s, pos + 1, depth, TRUE, char, Append(typeValue, char))
          ELSE IF inString /\ char = stringChar
          THEN ScanTypeValue(s, pos + 1, depth, FALSE, stringChar, Append(typeValue, char))
          ELSE IF ~inString /\ char = "{"
          THEN ScanTypeValue(s, pos + 1, depth + 1, inString, stringChar, Append(typeValue, char))
          ELSE IF ~inString /\ char = "}"
          THEN IF depth = 0 THEN [pos |-> pos, typeValue |-> typeValue]
               ELSE ScanTypeValue(s, pos + 1, depth - 1, inString, stringChar, Append(typeValue, char))
          ELSE IF ~inString /\ char = ";" /\ depth = 0
          THEN [pos |-> pos, typeValue |-> typeValue]
          ELSE ScanTypeValue(s, pos + 1, depth, inString, stringChar, Append(typeValue, char))

RECURSIVE ScanSearchEntries(_, _)
\* the outer loop of lines 369-420: searchEntries
ScanSearchEntries(s, pos0) ==
  LET pos == SkipSpaces(s, pos0)
      e == WordEnd(s, pos)
      c == SkipSpaces(s, e)
      tv == ScanTypeValue(s, SkipSpaces(s, c + 1), 0, FALSE, "", <<>>)
      next == IF tv.pos <= Len(s) /\ s[tv.pos] = ";" THEN tv.pos + 1 ELSE tv.pos
  IN IF pos > Len(s) THEN <<>>
     ELSE IF ~(e > pos /\ c <= Len(s) /\ s[c] = ":") THEN <<>>
     ELSE << <<SubSeq(s, pos, e - 1), trim(tv.typeValue)>> >>
          \o ScanSearchEntries(s, next)

\* fallback: `k?: string` for every key of route.searchParams
StringSearchShape(searchParams) ==
  [i \in 1..Len(searchParams) |-> <<searchParams[i][1], StringType>>]

\* lines 353-439 and 481-553: searchParamsType of one route, read from the
\* page file as it is when the artifact is emitted
SearchShape(tree, route) ==
  IF route.searchParams = <<>> THEN <<>>
  ELSE IF route.filePath \notin DOMAIN tree \/ ~tree[route.filePath].readable
  THEN StringSearchShape(route.searchParams)
  ELSE LET gm == emitGenericMatch(tree[route.filePath].text)
           searchEntries == ScanSearchEntries(gm.searchTypeStr, 1)
       IN IF gm.matched /\ searchEntries # <<>> THEN searchEntries
          ELSE StringSearchShape(route.searchParams)

\* lines 339-458: the first loop over the routes, which writes the entries
\* of `export const routes` and reads every page file with searchParams
RouteTable(tree, routes) ==
  [i \in 1..Len(routes) |->
     [routeId |-> routes[i].routeId,
      path |-> routes[i].path,
      params |-> ParamsShape(routes[i].params),
      search |-> SearchShape(tree, routes[i])]]

\* an emitter that adds to the routes already in the artifact
generateRoutesFile_appending(tree, routes) ==
  LET old == IF artifact = NoFile THEN <<>> ELSE artifact.RoutePathUnion
  IN [routes |-> <<>>,
      RouteId |-> <<>>,
      RouteParamsMap |-> <<>>,
      RouteSearchMap |-> <<>>,
      RoutePathToId |-> <<>>,
      RoutePathUnion |-> old \o [i \in 1..Len(routes) |-> routes[i].path]]

\* the value of a whole call over a tree that stays as it is during the call
generateRoutesFile(tree, routes) ==
  [routes |-> RouteTable(tree, routes),
   RouteId |-> [i \in 1..Len(routes) |-> routes[i].routeId],
   RouteParamsMap |-> [i \in 1..Len(routes) |->
                         <<routes[i].routeId, ParamsShape(routes[i].params)>>],
   RouteSearchMap |-> [i \in 1..Len(routes) |->
                         <<routes[i].routeId, SearchShape(tree, routes[i])>>],
   RoutePathToId |-> [i \in 1..Len(routes) |->
                        <<routes[i].path, routes[i].routeId>>],
   RoutePathUnion |-> [i \in 1..Len(routes) |-> routes[i].path]]

(***************************************************************************)
(* Bounds and program constants                                            *)
(***************************************************************************)
MaxChanges == 2          \* file-system changes per behaviour
MaxCalls == 3            \* calls of withRouteGeneration per process
TickMs == 100            \* granularity of time
DEBOUNCE_MS == 300       \* setTimeout(..., 300)

None == "none"
NeverFired == [gap |-> -1, events |-> -1]
NoInput == [valid |-> FALSE]

\* the trees a behaviour may start from
TwoPages ==
  (SettingsPage :> [text |-> ConfigText, readable |-> TRUE])
    @@ (BrandIdPage :> [text |-> GenericText, readable |-> TRUE])

InitialTrees == {<<>>, TwoPages}

\* the page files changed while a watcher runs: one below the watched
\* directory, one outside it
WatchedRunPaths == {BrandIdPage, ExtraSettingsPage}

\* the tree as the generator sees it
Tree == AllFiles(files, artifact, config)

WatchModes == {"standalone", "plugin"}

(***************************************************************************)
(* route-watcher.ts / next-plugin-route-gen.ts : watch patterns            *)
(***************************************************************************)
\* the directories the watcher was given (PAGES_DIRS in both files)
watchPatterns(cfg) == PAGES_DIRS(cfg)

\* chokidar matching of join(dir, '**', 'page.tsx') against a file path
MatchesWatch(cfg, path) ==
  \E i \in 1..Len(watchPatterns(cfg)) :
     /\ IsPrefix(pathSegments(watchPatterns(cfg)[i]), path)
     /\ Len(path) > Len(pathSegments(watchPatterns(cfg)[i]))
     /\ path[Len(path)] = PageFileName

\* a file event is raised for a change of path while the watcher is open
RaisesEvent(path) == watcher = "open" /\ MatchesWatch(config, path)

(***************************************************************************)
(* Initial state                                                           *)
(***************************************************************************)
\* what every behaviour starts with: nothing generated, nothing running
Idle ==
  /\ artifact = NoFile
  /\ children = <<>>
  /\ childPc = <<>>
  /\ lastExit = [threw |-> FALSE, code |-> 0]
  /\ exitCode = -1
  /\ isGenerating = FALSE
  /\ hasGenerated = FALSE
  /\ watcher = None
  /\ debounceTimer = 0
  /\ timers = {}
  /\ sigPending = FALSE
  /\ notifs = 0
  /\ changes = 0
  /\ sinceEvent = DEBOUNCE_MS
  /\ burstEvents = 0
  /\ lastTrigger = NeverFired
  /\ dirty = FALSE
  /\ selfTriggered = FALSE
  /\ sigHandled = FALSE
  /\ lastOutcome = None
  /\ artifactFrom = NoInput

\* withRouteGeneration has not been called
PluginIdle ==
  /\ calls = 0
  /\ initialRuns = 0
  /\ watchersCreated = 0
  /\ handlerSets = 0

\* page-watcher.ts is not running
PageIdle ==
  /\ pageFile = NoFile
  /\ pageEvents = <<>>
  /\ handlers = <<>>
  /\ pageWrites = 0
  /\ overwritten = {}
  /\ saves = 0

\* add:env is not running
EnvIdle ==
  /\ envPc = [at |-> "none"]
  /\ envTodo = <<>>
  /\ varConfigs = <<>>
  /\ envWrites = <<>>
  /\ envExit = -1

\* a watcher process is started over a tree of two pages
Init ==
  /\ mode \in WatchModes
  /\ nodeEnv \in IF mode = "plugin" THEN {"development", "production"}
                 ELSE {"development"}
  /\ config \in {getRouteGenConfig(u) : u \in WatchedUserConfigs}
  /\ files = TwoPages
  /\ dirOrder = "forward"
  /\ outWritable \in BOOLEAN
  /\ pc = "start"
  /\ Idle
  /\ options = "undefined"
  /\ PluginIdle
  /\ PageIdle
  /\ EnvIdle

\* generate-routes.ts is run from a shell
InitGen ==
  /\ mode = "oneshot"
  /\ nodeEnv = "development"
  /\ files \in InitialTrees
  /\ \/ /\ config \in {getRouteGenConfig(u) : u \in UserConfigs \cup {BrokenFilterConfig}}
        /\ dirOrder = "forward"
        /\ outWritable = TRUE
     \/ /\ config = defaultConfig
        /\ \/ dirOrder = "backward" /\ outWritable = TRUE
           \/ dirOrder = "forward" /\ outWritable = FALSE
  /\ pc = "shell"
  /\ Idle
  /\ options = "undefined"
  /\ PluginIdle
  /\ PageIdle
  /\ EnvIdle

(***************************************************************************)
(* generate-routes.ts : main, as the steps of one child process            *)
(***************************************************************************)
NewChild == [allRoutes |-> <<>>, table |-> <<>>, content |-> NoFile,
             input |-> NoInput, clean |-> TRUE]

RemoveAt(seq, i) == SubSeq(seq, 1, i - 1) \o SubSeq(seq, i + 1, Len(seq))

\* exit code of `if (require.main === module) main()`: an exception that
\* main lets escape ends the process with code 1
ExitCodeOf(threw) == IF threw THEN 1 ELSE 0

\* lines 596-607: scan every configured directory; an exception that
\* escapes ends the process before anything is emitted or written
MainScan(i) ==
  /\ childPc[i] = "scan"
  /\ IF CollectionThrows(Tree, config)
     THEN /\ childPc' = RemoveAt(childPc, i)
          /\ children' = RemoveAt(children, i)
          /\ lastExit' = [threw |-> TRUE, code |-> ExitCodeOf(TRUE)]
     ELSE /\ childPc' = [childPc EXCEPT ![i] = "emit"]
          /\ children' = [children EXCEPT ![i] =
                 [@ EXCEPT !.allRoutes = CollectAllRoutes(Tree, dirOrder, config),
                           !.input = [valid |-> TRUE, tree |-> Tree, order |-> dirOrder]]]
          /\ UNCHANGED lastExit
  /\ UNCHANGED <<pluginVars, pageVars, envVars, mode, nodeEnv, config, fsVars, artifact, procVars,
                 timers, notifs, changes, debounceVars, dirty, selfTriggered,
                 sigHandled, lastOutcome, artifactFrom>>

\* line 622, generateRoutesFile(allRoutes) up to the end of its first loop
\* (lines 327-458): the route table, from the page files as they are now
MainEmit(i) ==
  /\ childPc[i] = "emit"
  /\ childPc' = [childPc EXCEPT ![i] = "maps"]
  /\ children' = [children EXCEPT ![i] =
                    [@ EXCEPT !.table = RouteTable(Tree, children[i].allRoutes)]]
  /\ UNCHANGED <<pluginVars, pageVars, envVars, mode, nodeEnv, config, fsVars, artifact, lastExit, procVars,
                 timers, notifs, changes, debounceVars, dirty, selfTriggered,
                 sigHandled, lastOutcome, artifactFrom>>

\* the rest of generateRoutesFile (lines 460-587): the type maps, for which
\* the page files are read a second time
MainEmitMaps(i) ==
  /\ childPc[i] = "maps"
  /\ childPc' = [childPc EXCEPT ![i] = "write"]
  /\ children' = [children EXCEPT ![i] =
                    [@ EXCEPT !.content =
                       [generateRoutesFile(Tree, children[i].allRoutes)
                          EXCEPT !.routes = children[i].table]]]
  /\ UNCHANGED <<pluginVars, pageVars, envVars, mode, nodeEnv, config, fsVars, artifact, lastExit, procVars,
                 timers, notifs, changes, debounceVars, dirty, selfTriggered,
                 sigHandled, lastOutcome, artifactFrom>>

\* a write that keeps the first section of the file that is there
writeFileSync_patching(old, content) ==
  IF old = NoFile THEN content ELSE [content EXCEPT !.routes = old.routes]

\* fs.writeFileSync(file, content): the file holds content, whatever it held
writeFileSync(old, content) == content

\* lines 624-633: writeFileSync(OUTPUT_FILE, content), then the process ends
MainWrite(i) ==
  /\ childPc[i] = "write"
  /\ childPc' = RemoveAt(childPc, i)
  /\ children' = RemoveAt(children, i)
  /\ lastExit' = [threw |-> ~outWritable, code |-> ExitCodeOf(~outWritable)]
  /\ IF outWritable
     THEN /\ artifact' = writeFileSync(artifact, children[i].content)
          /\ artifactFrom' = IF children[i].clean THEN children[i].input ELSE NoInput
          /\ IF RaisesEvent(pathSegments(OUTPUT_FILE(config)))
             THEN /\ notifs' = notifs + 1
                  /\ selfTriggered' = TRUE
                  /\ dirty' = TRUE
             ELSE UNCHANGED <<notifs, selfTriggered, dirty>>
     ELSE UNCHANGED <<artifact, artifactFrom, notifs, selfTriggered, dirty>>
  /\ UNCHANGED <<pluginVars, pageVars, envVars, mode, nodeEnv, config, fsVars, procVars, timers, changes,
                 debounceVars, sigHandled, lastOutcome>>

\* `tsx scripts/generate-routes.ts` typed in a shell
OneShotRun ==
  /\ mode = "oneshot"
  /\ children = <<>>
  /\ children' = <<NewChild>>
  /\ childPc' = <<"scan">>
  /\ UNCHANGED <<pluginVars, pageVars, envVars, mode, nodeEnv, config, fsVars, artifact, lastExit, procVars,
                 timers, notifs, changes, debounceVars, dirty, selfTriggered,
                 sigHandled, lastOutcome, artifactFrom>>

(***************************************************************************)
(* The file system changing under the program                              *)
(***************************************************************************)
\* bookkeeping shared by the three kinds of change to page file p
Touched(p) ==
  /\ changes < MaxChanges
  /\ changes' = changes + 1
  /\ children' = [i \in 1..Len(children) |-> [children[i] EXCEPT !.clean = FALSE]]
  /\ UNCHANGED childPc
  /\ IF RaisesEvent(p)
     THEN notifs' = notifs + 1 /\ dirty' = TRUE
     ELSE UNCHANGED <<notifs, dirty>>
  /\ UNCHANGED <<pluginVars, pageVars, envVars, mode, nodeEnv, config, dirOrder, outWritable, artifact,
                 lastExit, procVars, timers, debounceVars, selfTriggered,
                 sigHandled, lastOutcome, artifactFrom>>

AddPage(p, file) ==
  /\ p \notin DOMAIN files
  /\ files' = [q \in DOMAIN files \cup {p} |-> IF q = p THEN file ELSE files[q]]
  /\ Touched(p)

ChangePage(p, text) ==
  /\ p \in DOMAIN files
  /\ files[p].text # text
  /\ files' = [files EXCEPT ![p].text = text]
  /\ Touched(p)

UnlinkPage(p) ==
  /\ p \in DOMAIN files
  /\ files' = [q \in DOMAIN files \ {p} |-> files[q]]
  /\ Touched(p)

(***************************************************************************)
(* Timers of the event loop                                                *)
(***************************************************************************)
TimerIds(ts) == {t.id : t \in ts}

\* a debouncedGenerate that leaves the pending timer in place
clearTimeout_kept(ts, handle) == ts

\* clearTimeout(handle): a handle that is null, undefined or already fired
\* clears nothing
clearTimeout(ts, handle) == {t \in ts : t.id # handle}

\* the handle setTimeout returns: one no pending timer and no kept handle has
FreshTimerId(ts, handle) ==
  CHOOSE n \in 1..(Cardinality(ts) + 2) :
    /\ n \notin TimerIds(ts) \cup {handle}
    /\ \A m \in 1..(n - 1) : m \in TimerIds(ts) \cup {handle}

\* a child process started without waiting for it
ExecSyncReturns_async == TRUE

\* execSync returns only when the child process has ended
ExecSyncReturns == children = <<>>

\* an event loop that runs callbacks while a child process is awaited
LoopFree_async == pc \in {"loop", "execInit", "execTimer"}

\* the event loop runs callbacks only while no callback is running
LoopFree == pc = "loop"

\* a flag that is reset only when the run succeeded
isGeneratingAfter_sticky(failed) == failed

\* `finally { isGenerating = false }`: the flag when generateRoutes is left,
\* whether execSync threw or not
isGeneratingAfter(failed) == FALSE

Min(a, b) == IF a < b THEN a ELSE b
Max(a, b) == IF a > b THEN a ELSE b

(***************************************************************************)
(* route-watcher.ts and next-plugin-route-gen.ts                           *)
(***************************************************************************)

\* route-watcher.ts, module body: the watcher and the signal handlers are
\* created when the script starts
StandaloneStart ==
  /\ mode = "standalone"
  /\ pc = "start"
  /\ watcher' = "open"
  /\ pc' = "loop"
  /\ UNCHANGED <<pluginVars, pageVars, envVars, mode, nodeEnv, config, fsVars, artifact, children, childPc, lastExit,
                 exitCode, isGenerating, hasGenerated, debounceTimer, timers,
                 sigPending, notifs, changes, debounceVars, dirty,
                 selfTriggered, sigHandled, lastOutcome, artifactFrom>>

\* what a call of withRouteGeneration may pass as options.watch
WatchOptions == {"undefined", "true", "false"}

\* const enableWatch = options.watch !== undefined ? options.watch
\*                                                 : (config.watch ?? true)
enableWatch(o) == IF o # "undefined" THEN o = "true" ELSE config.watch

\* a call that leaves the watcher check out would watch on every call
PluginWatches_everyCall(o) ==
  enableWatch(o) /\ nodeEnv # "production"

\* the watcher is set up by withRouteGeneration (plugin lines 72-152)
PluginWatches(o) ==
  enableWatch(o) /\ watcher = None /\ nodeEnv # "production"

\* withRouteGeneration, lines 60-152: the first call generates the routes
\* and generateRoutes blocks in execSync until the child has ended; the
\* watcher and its signal handlers are created behind `!watcher`
withRouteGeneration(o) ==
  /\ options' = o
  /\ calls' = calls + 1
  /\ IF ~hasGenerated /\ ~isGenerating
     THEN /\ isGenerating' = TRUE
          /\ children' = Append(children, NewChild)
          /\ childPc' = Append(childPc, "scan")
          /\ pc' = "execInit"
          /\ initialRuns' = initialRuns + 1
          /\ UNCHANGED <<hasGenerated, watcher, watchersCreated, handlerSets>>
     ELSE /\ hasGenerated' = TRUE
          /\ watcher' = IF PluginWatches(o) THEN "open" ELSE watcher
          /\ watchersCreated' = watchersCreated + IF PluginWatches(o) THEN 1 ELSE 0
          /\ handlerSets' = handlerSets + IF PluginWatches(o) THEN 1 ELSE 0
          /\ pc' = "loop"
          /\ UNCHANGED <<isGenerating, children, childPc, initialRuns>>
  /\ UNCHANGED <<pageVars, envVars, mode, nodeEnv, config, fsVars, artifact, lastExit, exitCode,
                 debounceTimer, timers, sigPending, notifs, changes,
                 debounceVars, dirty, selfTriggered, sigHandled, lastOutcome,
                 artifactFrom>>

\* next.config.ts is loaded: the first call of withRouteGeneration
PluginLoad ==
  /\ mode = "plugin"
  /\ pc = "start"
  /\ withRouteGeneration(options)

\* withRouteGeneration is called again in the same process
PluginAgain ==
  /\ mode = "plugin"
  /\ pc = "loop"
  /\ calls < MaxCalls
  /\ \E o \in WatchOptions : withRouteGeneration(o)

\* execSync has returned or thrown in the generateRoutes called from
\* withRouteGeneration: the catch and finally of plugin lines 37-46, then
\* lines 67-152
PluginInitReturn ==
  /\ pc = "execInit"
  /\ ExecSyncReturns
  /\ lastOutcome' = IF lastExit.code = 0 THEN "ok" ELSE "failed"
  /\ IF lastExit.code # 0 /\ nodeEnv = "production"
     THEN /\ pc' = "exited"
          /\ exitCode' = 1
          /\ UNCHANGED <<isGenerating, hasGenerated, watcher, watchersCreated,
                         handlerSets>>
     ELSE /\ isGenerating' = isGeneratingAfter(lastExit.code # 0)
          /\ hasGenerated' = TRUE
          /\ watcher' = IF PluginWatches(options) THEN "open" ELSE watcher
          /\ watchersCreated' = watchersCreated + IF PluginWatches(options) THEN 1 ELSE 0
          /\ handlerSets' = handlerSets + IF PluginWatches(options) THEN 1 ELSE 0
          /\ pc' = "loop"
          /\ UNCHANGED exitCode
  /\ UNCHANGED <<options, calls, initialRuns, pageVars, envVars, mode, nodeEnv, config, fsVars, artifact, children, childPc, lastExit,
                 debounceTimer, timers, sigPending, notifs, changes,
                 debounceVars, dirty, selfTriggered, sigHandled, artifactFrom>>

\* the 'add' / 'change' / 'unlink' handlers: debouncedGenerate(filePath)
\* (route-watcher lines 60-70, plugin lines 91-98)
FileEvent ==
  /\ LoopFree
  /\ watcher = "open"
  /\ notifs > 0
  /\ notifs' = notifs - 1
  /\ LET id == FreshTimerId(timers, debounceTimer)
     IN /\ timers' = clearTimeout(timers, debounceTimer)
                       \cup {[id |-> id, left |-> DEBOUNCE_MS]}
        /\ debounceTimer' = id
  /\ sinceEvent' = 0
  /\ burstEvents' = burstEvents + 1
  /\ UNCHANGED <<pluginVars, pageVars, envVars, mode, nodeEnv, config, fsVars, artifact, children, childPc, lastExit,
                 pc, exitCode, isGenerating, hasGenerated, watcher, sigPending,
                 changes, lastTrigger, dirty, selfTriggered, sigHandled,
                 lastOutcome, artifactFrom>>

\* the setTimeout callback: generateRoutes() up to the execSync call
\* (route-watcher lines 19-31 and 64-67, plugin lines 17-28 and 93-96);
\* when isGenerating is set the call returns at once
TimerFire(t) ==
  /\ LoopFree
  /\ t \in timers
  /\ t.left = 0
  /\ timers' = timers \ {t}
  /\ lastTrigger' = [gap |-> sinceEvent, events |-> burstEvents]
  /\ burstEvents' = 0
  /\ IF isGenerating
     THEN /\ debounceTimer' = IF mode = "standalone" THEN 0 ELSE debounceTimer
          /\ UNCHANGED <<isGenerating, children, childPc, pc, dirty>>
     ELSE /\ isGenerating' = TRUE
          /\ children' = Append(children, NewChild)
          /\ childPc' = Append(childPc, "scan")
          /\ pc' = "execTimer"
          /\ dirty' = FALSE
          /\ UNCHANGED debounceTimer
  /\ UNCHANGED <<pluginVars, pageVars, envVars, mode, nodeEnv, config, fsVars, artifact, lastExit, exitCode,
                 hasGenerated, watcher, sigPending, notifs, changes,
                 sinceEvent, selfTriggered, sigHandled, lastOutcome,
                 artifactFrom>>

\* execSync has returned or thrown in the generateRoutes called from the
\* timer callback: try / catch / finally, then `debounceTimer = null` in
\* route-watcher.ts (lines 32-37 and 68), plugin lines 29-46
TimerReturn ==
  /\ pc = "execTimer"
  /\ ExecSyncReturns
  /\ lastOutcome' = IF lastExit.code = 0 THEN "ok" ELSE "failed"
  /\ IF mode = "plugin" /\ lastExit.code # 0 /\ nodeEnv = "production"
     THEN /\ pc' = "exited"
          /\ exitCode' = 1
          /\ UNCHANGED <<isGenerating, debounceTimer>>
     ELSE /\ isGenerating' = isGeneratingAfter(lastExit.code # 0)
          /\ debounceTimer' = IF mode = "standalone" THEN 0 ELSE debounceTimer
          /\ pc' = "loop"
          /\ UNCHANGED exitCode
  /\ UNCHANGED <<pluginVars, pageVars, envVars, mode, nodeEnv, config, fsVars, artifact, children, childPc, lastExit,
                 hasGenerated, watcher, timers, sigPending, notifs, changes,
                 debounceVars, dirty, selfTriggered, sigHandled, artifactFrom>>

\* SIGINT or SIGTERM is sent to the watcher process; the handlers exist
\* once the watcher does
Signal ==
  /\ watcher = "open"
  /\ pc # "exited"
  /\ ~sigPending /\ ~sigHandled
  /\ sigPending' = TRUE
  /\ UNCHANGED <<pluginVars, pageVars, envVars, mode, nodeEnv, config, fsVars, artifact, children, childPc, lastExit,
                 pc, exitCode, isGenerating, hasGenerated, watcher,
                 debounceTimer, timers, notifs, changes, debounceVars, dirty,
                 selfTriggered, sigHandled, lastOutcome, artifactFrom>>

\* the SIGINT / SIGTERM handler: route-watcher lines 112-122 close the
\* watcher and call process.exit(0); plugin lines 137-147 close the watcher
SignalHandler ==
  /\ LoopFree
  /\ sigPending
  /\ sigPending' = FALSE
  /\ sigHandled' = TRUE
  /\ watcher' = "closed"
  /\ IF mode = "standalone"
     THEN pc' = "exited" /\ exitCode' = 0
     ELSE UNCHANGED <<pc, exitCode>>
  /\ UNCHANGED <<pluginVars, pageVars, envVars, mode, nodeEnv, config, fsVars, artifact, children, childPc, lastExit,
                 isGenerating, hasGenerated, debounceTimer, timers, notifs,
                 changes, debounceVars, dirty, selfTriggered, lastOutcome,
                 artifactFrom>>

\* TickMs of time pass; a timer that is due fires before more time passes
\* unless the event loop is blocked
Tick ==
  /\ ~(LoopFree /\ \E t \in timers : t.left = 0)
  /\ pc # "exited"
  /\ timers # {} \/ sinceEvent < DEBOUNCE_MS
  /\ timers' = {[t EXCEPT !.left = Max(0, @ - TickMs)] : t \in timers}
  /\ sinceEvent' = Min(DEBOUNCE_MS, sinceEvent + TickMs)
  /\ UNCHANGED <<pluginVars, pageVars, envVars, mode, nodeEnv, config, fsVars, artifact, children, childPc, lastExit,
                 procVars, notifs, changes, burstEvents, lastTrigger, dirty,
                 selfTriggered, sigHandled, lastOutcome, artifactFrom>>

(***************************************************************************)
(* Specification                                                           *)
(***************************************************************************)
\* a watcher process, the generator it starts, and the files changing
Next ==
  \/ \E i \in 1..Len(children) : MainScan(i)
  \/ \E i \in 1..Len(children) : MainEmit(i)
  \/ \E i \in 1..Len(children) : MainEmitMaps(i)
  \/ \E i \in 1..Len(children) : MainWrite(i)
  \/ \E p \in WatchedRunPaths : \E file \in PageVariants(p) : AddPage(p, file)
  \/ \E p \in WatchedRunPaths : \E text \in PageTexts(p) : ChangePage(p, text)
  \/ \E p \in WatchedRunPaths : UnlinkPage(p)
  \/ StandaloneStart
  \/ PluginLoad
  \/ PluginInitReturn
  \/ FileEvent
  \/ \E t \in timers : TimerFire(t)
  \/ TimerReturn
  \/ Signal
  \/ SignalHandler
  \/ Tick

Spec == Init /\ [][Next]_vars

\* a generator process takes its next step, told by its position alone
ChildStep ==
  \E i \in 1..Len(childPc) :
     \/ childPc[i] = "scan" /\ childPc' = RemoveAt(childPc, i)
     \/ childPc' = IF childPc[i] = "write" THEN RemoveAt(childPc, i)
                   ELSE [childPc EXCEPT ![i] = IF @ = "scan" THEN "emit"
                                               ELSE IF @ = "emit" THEN "maps"
                                               ELSE "write"]

\* a step of the watcher process or of its timers
LoopStep ==
  \/ StandaloneStart
  \/ PluginLoad
  \/ PluginInitReturn
  \/ FileEvent
  \/ \E t \in timers : TimerFire(t)
  \/ TimerReturn
  \/ SignalHandler
  \/ Tick

\* the processes are scheduled and time passes; the files change and
\* signals arrive only if somebody makes them
FairSpec == Spec /\ WF_childPc(ChildStep) /\ WF_vars(LoopStep)

\* generate-routes.ts run by hand, any number of times, between changes
NextGen ==
  \/ OneShotRun
  \/ \E i \in 1..Len(children) : MainScan(i)
  \/ \E i \in 1..Len(children) : MainEmit(i)
  \/ \E i \in 1..Len(children) : MainEmitMaps(i)
  \/ \E i \in 1..Len(children) : MainWrite(i)
  \/ \E p \in PagePaths : \E file \in PageVariants(p) : AddPage(p, file)
  \/ \E p \in PagePaths : \E text \in PageTexts(p) : ChangePage(p, text)
  \/ \E p \in PagePaths : UnlinkPage(p)

SpecGen == InitGen /\ [][NextGen]_vars

\* the user configurations the repeated calls are run under
PluginUserConfigs == { [watch |-> TRUE], [watch |-> FALSE] }

\* next.config.ts is loaded in a Next.js process
InitPlugin ==
  /\ mode = "plugin"
  /\ nodeEnv \in {"development", "production"}
  /\ config \in {getRouteGenConfig(u) : u \in PluginUserConfigs}
  /\ files = TwoPages
  /\ dirOrder = "forward"
  /\ outWritable \in BOOLEAN
  /\ pc = "start"
  /\ Idle
  /\ options \in WatchOptions
  /\ PluginIdle
  /\ PageIdle
  /\ EnvIdle

\* a process that calls withRouteGeneration several times and is signalled
NextPlugin ==
  \/ \E i \in 1..Len(children) : MainScan(i)
  \/ \E i \in 1..Len(children) : MainEmit(i)
  \/ \E i \in 1..Len(children) : MainEmitMaps(i)
  \/ \E i \in 1..Len(children) : MainWrite(i)
  \/ PluginLoad
  \/ PluginInitReturn
  \/ PluginAgain
  \/ Signal
  \/ SignalHandler

SpecPlugin == InitPlugin /\ [][NextPlugin]_vars

(***************************************************************************)
(* Single runs of generate-routes.ts over a catalogue of page files        *)
(***************************************************************************)
\* page texts: a createPage call without type arguments, a generic whose
\* search type ends with `;`, and the two calls of the documentation
BareCallText == <<"c","r","e","a","t","e","P","a","g","e","(","{","}",")">>
SemiGenericText == <<"c","r","e","a","t","e","P","a","g","e","<","{","i","d",":","n","u","m","b","e","r","}",",","{","t","a","b",":","'","a","'","|","'","b","'",";","}",">","(","{","}",")">>
DocGenericText == <<"c","r","e","a","t","e","P","a","g","e","<","{","}",","," ","{"," ","t","a","b",":"," ","'","d","e","t","a","i","l","s","'"," ","|"," ","'","s","e","t","t","i","n","g","s","'"," ","}",">","(","{","}",")">>
DocConfigText == <<"c","r","e","a","t","e","P","a","g","e","(","{"," ","s","e","a","r","c","h","P","a","r","a","m","s",":"," ","{"," ","p","a","g","e",":"," ","'","1","'",","," ","s","o","r","t",":"," ","'","n","a","m","e","'"," ","a","s"," ","'","n","a","m","e","'"," ","|"," ","'","d","a","t","e","'"," ","}"," ","}",")">>

BrandsSeg == <<"b","r","a","n","d","s">>
IdSeg == <<"[","i","d","]">>
IddSeg == <<"[","i","d","d","]">>

\* the directories, below a root, that hold a page file: literal and
\* parameter directories, names in several words, a route group, a name
\* that starts with a digit, a name with a dot, a parameter directly below
\* the root, the directory home, and the root itself
CatalogueDirs ==
  { <<BrandsSeg>>, <<BrandsSeg, IdSeg>>, <<BrandsSeg, IdSeg, IddSeg>>,
    <<BrandsSeg, IdSeg, <<"e","d","i","t">> >>,
    << <<"s","e","t","t","i","n","g","s">> >>,
    << <<"u","s","e","r","-","p","r","o","f","i","l","e","s">>, IdSeg>>,
    << <<"b","r","a","n","d","_","i","t","e","m","s">> >>,
    << <<"(","a","u","t","h",")">> >>, << <<"2","f","a">> >>, << <<"v","1",".","0">> >>, <<IdSeg>>, <<HomeId>>, <<>> }

\* what a page file may be
CatalogueFiles ==
  {[text |-> t, readable |-> TRUE] :
      t \in {PlainText, BareCallText, GenericText, SemiGenericText,
             DocGenericText, ConfigText, DocConfigText}}
    \cup {[text |-> GenericText, readable |-> FALSE]}

\* the trees: one page file below the root, or a plain page in every
\* directory of the catalogue
CatalogueTrees(root) ==
  {(root \o dir \o <<PageFileName>>) :> file :
      dir \in CatalogueDirs, file \in CatalogueFiles}
    \cup {[p \in {root \o dir \o <<PageFileName>> : dir \in CatalogueDirs} |->
             [text |-> PlainText, readable |-> TRUE]]}

\* the user configurations of the catalogue: the default, the root of the
\* application shop, the root src/pages outside `(apps)`, an override, and
\* filters matched as substrings (/admin/brands, /edit) or as regular
\* expressions only (^/admin/brand, /brands/.id./.)
CatalogueConfigs ==
  { [watch |-> TRUE],
    [pagesDirs |-> << <<"a","p","p","/","(","a","p","p","s",")","/","s","h","o","p","/","(","p","a","g","e","s",")">> >>],
    [pagesDirs |-> << <<"s","r","c","/","p","a","g","e","s">> >>],
    [routeIdMap |-> << <<BrandDetailPath, BrandDetailId>> >>],
    [exclude |-> << <<"/","a","d","m","i","n","/","b","r","a","n","d","s">> >>],
    [include |-> << <<"/","a","d","m","i","n","/","b","r","a","n","d","s">> >>],
    [include |-> << <<"/","a","d","m","i","n","/","b","r","a","n","d","s">> >>, exclude |-> << <<"/","e","d","i","t">> >>],
    [include |-> << <<"^","/","a","d","m","i","n","/","b","r","a","n","d">> >>],
    [exclude |-> << <<"/","b","r","a","n","d","s","/",".","i","d",".","/",".">> >>] }

InitRun ==
  /\ mode = "oneshot"
  /\ nodeEnv = "development"
  /\ config \in {getRouteGenConfig(u) : u \in CatalogueConfigs}
  /\ files \in CatalogueTrees(pathSegments(PAGES_DIRS(config)[1]))
  /\ dirOrder = "forward"
  /\ outWritable = TRUE
  /\ pc = "shell"
  /\ Idle
  /\ options = "undefined"
  /\ PluginIdle
  /\ PageIdle
  /\ EnvIdle

\* runs of the generator over a tree that nobody changes
NextRun ==
  \/ OneShotRun
  \/ \E i \in 1..Len(children) : MainScan(i)
  \/ \E i \in 1..Len(children) : MainEmit(i)
  \/ \E i \in 1..Len(children) : MainEmitMaps(i)
  \/ \E i \in 1..Len(children) : MainWrite(i)

SpecRun == InitRun /\ [][NextRun]_vars

(***************************************************************************)
(* page-watcher.ts : the template and the tests on a page file             *)
(***************************************************************************)
\* PAGES_DIR of page-watcher.ts, as path segments
PAGES_DIR == pathSegments(joinCwd(AdminPagesDir))

MIN_FILE_SIZE == 50      \* bytes
TRIMMED_NO_EXPORT == 200 \* needsTemplate: trimmedContent.length > 200
TRIMMED_SUBSTANTIAL == 100 \* processPageFile: trimmedContent.length > 100
CODE_LINES == 3          \* processPageFile: more than 3 lines of code

\* String.prototype.toLowerCase
toLowerCase(s) ==
  [k \in 1..Len(s) |->
     IF \E j \in 1..26 : UpperCase[j] = s[k]
     THEN LowerCase[CHOOSE j \in 1..26 : UpperCase[j] = s[k]]
     ELSE s[k]]

\* page-watcher.ts extractRouteFromPath: relative(PAGES_DIR, filePath)
\* without page.tsx gives the segments of the route; the names of the
\* [name] folders are the params
pageRouteFromPath(filePath) ==
  LET routeParts == SubSeq(filePath, Len(PAGES_DIR) + 1, Len(filePath) - 1)
      isParam(part) == part # <<>> /\ part[1] = "[" /\ part[Len(part)] = "]"
      paramParts == SelectSeq(routeParts, isParam)
  IN  [route |-> AdminPrefix \o JoinWith(routeParts, <<"/">>),
       params |-> [k \in 1..Len(paramParts) |-> slice1(paramParts[k])]]

\* generatePageName
generatePageName(route) ==
  LET parts == filterBoolean(split(route, {"/"}))
      lastPart == parts[Len(parts)]
  IN  IF Len(parts) = 1 THEN <<"H","o","m","e">>
      ELSE IF lastPart[1] = "["
      THEN capitalize(parts[Len(parts) - 1]) \o <<" ","D","e","t","a","i","l">>
      ELSE capitalize(lastPart)

\* `${p}: string` and the other per-parameter texts of the template
ParamTexts(params, before, after) ==
  [k \in 1..Len(params) |-> before \o params[k] \o after]

\* a template that leaves the createPage call to its user
generatePageTemplate_bare(route, params) ==
  <<"/","*","*","\n"," ","*"," ","A","d","m","i","n"," ">> \o generatePageName(route) \o <<" ","P","a","g","e","\n"," ","*"," ","R","o","u","t","e",":"," ">> \o route \o <<" ","(","a","u","t","o","-","i","n","f","e","r","r","e","d",")","\n"," ","*","/","\n">>

\* generatePageTemplate: the text written to a page file
generatePageTemplate(route, params) ==
  LET displayName == generatePageName(route)
      hasParams == Len(params) > 0
      paramsComment ==
        IF hasParams
        THEN <<" ","*"," ","P","a","r","a","m","s",":"," ","{"," ">> \o JoinWith(ParamTexts(params, <<>>, <<":"," ","s","t","r","i","n","g">>), <<","," ">>)
             \o <<" ","}"," ","(","a","u","t","o","-","i","n","f","e","r","r","e","d"," ","f","r","o","m"," ">> \o JoinWith(ParamTexts(params, <<"[">>, <<"]">>), <<","," ">>)
             \o <<" ","f","o","l","d","e","r">> \o (IF Len(params) > 1 THEN <<"s">> ELSE <<>>) \o <<")","\n">>
        ELSE <<>>
      paramsUsage ==
        IF hasParams
        THEN <<" "," ","c","o","n","s","t"," ","{"," ">> \o JoinWith(params, <<","," ">>) \o <<" ","}"," ","="," ","a","w","a","i","t"," ","p","a","r","a","m","s",";","\n","\n">>
        ELSE <<>>
      paramsDisplay ==
        IF hasParams
        THEN <<" "," "," "," "," "," ","<","p"," ","c","l","a","s","s","N","a","m","e","=","\"","t","e","x","t","-","g","r","a","y","-","6","0","0","\"",">">>
             \o JoinWith([k \in 1..Len(params) |->
                            capitalize(params[k]) \o <<":"," ","{">> \o params[k] \o <<"}">>],
                         <<","," ">>)
             \o <<"<","/","p",">","\n">>
        ELSE <<>>
  IN  <<"/","*","*","\n"," ","*"," ","A","d","m","i","n"," ">> \o displayName \o <<" ","P","a","g","e","\n"," ","*"," ","R","o","u","t","e",":"," ">> \o route \o <<" ","(","a","u","t","o","-","i","n","f","e","r","r","e","d",")","\n">>
      \o paramsComment \o <<" ","*","/","\n","\n","i","m","p","o","r","t"," ","{"," ","c","r","e","a","t","e","P","a","g","e"," ","}"," ","f","r","o","m"," ","'","@","/","a","p","p","/","(","a","p","p","s",")","/","a","d","m","i","n","/","l","i","b","/","c","r","e","a","t","e","-","p","a","g","e","'",";","\n","\n","e","x","p","o","r","t"," ","c","o","n","s","t"," ","p","a","g","e"," ","="," ","c","r","e","a","t","e","P","a","g","e","(","{","\n"," "," ","s","e","a","r","c","h","P","a","r","a","m","s",":"," ","{","}",",","\n","}",")","(","a","s","y","n","c"," ","(","{"," ","p","a","r","a","m","s",","," ","s","e","a","r","c","h","P","a","r","a","m","s"," ","}",")"," ","=",">"," ","{","\n">> \o paramsUsage \o <<" "," ","r","e","t","u","r","n"," ","(","\n"," "," "," "," ","<","d","i","v"," ","c","l","a","s","s","N","a","m","e","=","\"","c","o","n","t","a","i","n","e","r"," ","m","x","-","a","u","t","o"," ","p","-","6","\"",">","\n"," "," "," "," "," "," ","<","h","1"," ","c","l","a","s","s","N","a","m","e","=","\"","t","e","x","t","-","3","x","l"," ","f","o","n","t","-","b","o","l","d"," ","m","b","-","4","\"",">">> \o displayName
      \o <<"<","/","h","1",">","\n"," "," "," "," "," "," ","<","p"," ","c","l","a","s","s","N","a","m","e","=","\"","t","e","x","t","-","g","r","a","y","-","6","0","0","\"",">","W","e","l","c","o","m","e"," ","t","o"," ","t","h","e"," ">> \o toLowerCase(displayName) \o <<" ","p","a","g","e","<","/","p",">","\n">> \o paramsDisplay
      \o <<" "," "," "," ","<","/","d","i","v",">","\n"," "," ",")",";","\n","}",")",";","\n","\n","e","x","p","o","r","t"," ","d","e","f","a","u","l","t"," ","p","a","g","e",";","\n">>

\* the words processPageFile looks for
ExportWord == <<"e","x","p","o","r","t">>
FunctionWord == <<"f","u","n","c","t","i","o","n">>
ConstWord == <<"c","o","n","s","t">>

\* content.split('\n').filter(l => l.trim() && !l.trim().startsWith('//')):
\* the lines are told by the positions where they start
CodeLines(content) ==
  LET breaks == {0} \cup {k \in 1..Len(content) : content[k] = "\n"}
      lineAfter(p) ==
        LET ends == {k \in (p + 1)..Len(content) : content[k] = "\n"}
                      \cup {Len(content) + 1}
            next == CHOOSE k \in ends : \A m \in ends : k <= m
        IN  SubSeq(content, p + 1, next - 1)
  IN  {p \in breaks : /\ trim(lineAfter(p)) # <<>>
                      /\ ~StartsWithAt(trim(lineAfter(p)), CommentMark, 1)}

\* needsTemplate after `await stat`: true below MIN_FILE_SIZE, whatever
\* the file holds; "read" when the content decides
needsTemplateBySize(size) ==
  IF size < MIN_FILE_SIZE THEN "true" ELSE "read"

\* needsTemplate after `await readFile`
needsTemplateByContent(content) ==
  IF includes(content, CreatePageWord) THEN FALSE
  ELSE IF Len(trim(content)) > TRIMMED_NO_EXPORT /\ ~includes(trim(content), ExportWord)
  THEN FALSE
  ELSE TRUE

\* needsTemplate on a file that nobody changes during the call
needsTemplate(file) ==
  IF ~file.exists THEN TRUE
  ELSE IF needsTemplateBySize(Len(file.content)) = "true" THEN TRUE
  ELSE needsTemplateByContent(file.content)

\* processPageFile, lines 184-190: the file has substantial content and
\* is left alone with a warning
hasSubstantialContent(existingContent) ==
  LET trimmedContent == trim(existingContent)
  IN  /\ Len(trimmedContent) > TRIMMED_SUBSTANTIAL
      /\ \/ includes(trimmedContent, ExportWord)
         \/ includes(trimmedContent, FunctionWord)
         \/ includes(trimmedContent, ConstWord)
         \/ Cardinality(CodeLines(trimmedContent)) > CODE_LINES

(***************************************************************************)
(* page-watcher.ts : the watcher, its asynchronous handlers and the user   *)
(***************************************************************************)
MaxSaves == 1            \* saves and deletions of the page file by the user

\* what the user may save in a page file
EmptyText == <<>>
SmallAuthoredText == <<"e","x","p","o","r","t"," ","c","o","n","s","t"," ","p","a","g","e"," ","="," ","c","r","e","a","t","e","P","a","g","e","(","{","}",")","(","(",")"," ","=",">"," ","n","u","l","l",")",";">>
ShortCommentText == <<"/","/"," ","T","O","D","O",":"," ","t","h","e"," ","l","i","s","t"," ","o","f"," ","b","r","a","n","d","s"," ","g","o","e","s"," ","h","e","r","e",","," ","a","f","t","e","r"," ","t","h","e"," ","r","e","l","e","a","s","e","\n">>
AuthoredPageText == <<"i","m","p","o","r","t"," ","{"," ","c","r","e","a","t","e","P","a","g","e"," ","}"," ","f","r","o","m"," ","'","@","/","a","p","p","/","(","a","p","p","s",")","/","a","d","m","i","n","/","l","i","b","/","c","r","e","a","t","e","-","p","a","g","e","'",";","\n","\n","e","x","p","o","r","t"," ","c","o","n","s","t"," ","p","a","g","e"," ","="," ","c","r","e","a","t","e","P","a","g","e","(","{","\n"," "," ","s","e","a","r","c","h","P","a","r","a","m","s",":"," ","{"," ","t","a","b",":"," ","'","a","l","l","'"," ","}",",","\n","}",")","(","a","s","y","n","c"," ","(",")"," ","=",">"," ","<","B","r","a","n","d","L","i","s","t"," ","/",">",")",";","\n","\n","e","x","p","o","r","t"," ","d","e","f","a","u","l","t"," ","p","a","g","e",";","\n">>
PlainComponentText == <<"i","m","p","o","r","t"," ","{"," ","B","r","a","n","d","L","i","s","t"," ","}"," ","f","r","o","m"," ","'",".","/","b","r","a","n","d","-","l","i","s","t","'",";","\n","\n","e","x","p","o","r","t"," ","d","e","f","a","u","l","t"," ","f","u","n","c","t","i","o","n"," ","P","a","g","e","(",")"," ","{","\n"," "," ","r","e","t","u","r","n"," ","<","B","r","a","n","d","L","i","s","t"," ","t","i","t","l","e","=","\"","A","l","l"," ","b","r","a","n","d","s","\""," ","/",">",";","\n","}","\n">>
LongNotesText == <<"/","*","\n"," ","*"," ","b","r","a","n","d","s"," ","t","o"," ","s","h","o","w",":"," ","t","h","e"," ","o","n","e","s"," ","w","i","t","h"," ","a","n"," ","o","p","e","n"," ","o","r","d","e","r",","," ","n","e","w","e","s","t"," ","f","i","r","s","t",",","\n"," ","*"," ","b","r","a","n","d","s"," ","t","o"," ","s","h","o","w",":"," ","t","h","e"," ","o","n","e","s"," ","w","i","t","h"," ","a","n"," ","o","p","e","n"," ","o","r","d","e","r",","," ","n","e","w","e","s","t"," ","f","i","r","s","t",",","\n"," ","*"," ","b","r","a","n","d","s"," ","t","o"," ","s","h","o","w",":"," ","t","h","e"," ","o","n","e","s"," ","w","i","t","h"," ","a","n"," ","o","p","e","n"," ","o","r","d","e","r",","," ","n","e","w","e","s","t"," ","f","i","r","s","t",",","\n"," ","*"," ","b","r","a","n","d","s"," ","t","o"," ","s","h","o","w",":"," ","t","h","e"," ","o","n","e","s"," ","w","i","t","h"," ","a","n"," ","o","p","e","n"," ","o","r","d","e","r",","," ","n","e","w","e","s","t"," ","f","i","r","s","t",",","\n"," ","*","/","\n">>

UserTexts == {EmptyText, SmallAuthoredText, ShortCommentText, AuthoredPageText,
              PlainComponentText, LongNotesText}

\* what the user saves while the watcher runs
SavedTexts == {EmptyText, ShortCommentText, AuthoredPageText}

\* the page files the watcher is run over
WatchedPageDirs == { <<>>, <<BrandsSeg>>, <<BrandsSeg, IdSeg>>,
                     <<BrandsSeg, IdSeg, IddSeg>> }

\* the template processPageFile computes for the file
TemplateOf(filePath) ==
  LET r == pageRouteFromPath(filePath)
  IN  generatePageTemplate(r.route, r.params)

\* the handler has returned
Finished == [pc |-> "done"]

RECURSIVE needsTemplateEnters(_, _)
\* processPageFile after `await needsTemplate(filePath)` (lines 166-181),
\* and the 'change' handler after its own call (lines 235-239): up to the
\* next await
needsTemplateReturns(h, exists, needsUpdate) ==
  IF ~needsUpdate THEN Finished
  ELSE IF h.phase = "handler"
  THEN needsTemplateEnters([h EXCEPT !.phase = "process"], exists)
  ELSE IF exists THEN [h EXCEPT !.pc = "reread"]
  ELSE [h EXCEPT !.pc = "write"]

\* needsTemplate up to `await stat` (lines 123-129)
needsTemplateEnters(h, exists) ==
  IF ~exists THEN needsTemplateReturns(h, exists, TRUE)
  ELSE [h EXCEPT !.pc = "stat"]

\* chokidar calls the 'add' handler (processPageFile at once) or the
\* 'change' handler (needsTemplate first)
HandlerStarts(e, exists, now) ==
  needsTemplateEnters([kind |-> e.kind,
                       phase |-> IF e.kind = "add" THEN "process" ELSE "handler",
                       pc |-> "start", cause |-> e.cause, gen |-> e.gen,
                       seen |-> now],
                      exists)

\* the handlers after handler i has run up to its next await
Resumed(i, h) ==
  IF h = Finished THEN RemoveAt(handlers, i)
  ELSE [handlers EXCEPT ![i] = h]

\* the event chokidar raises for a write of the file
EventFor(exists, cause, now) ==
  [kind |-> IF exists THEN "change" ELSE "add",
   cause |-> cause, gen |-> now]

routeVars == <<mode, nodeEnv, config, files, dirOrder, outWritable, artifact,
               children, childPc, lastExit, pc, exitCode, isGenerating,
               hasGenerated, watcher, debounceTimer, timers, sigPending, notifs,
               changes, sinceEvent, burstEvents, lastTrigger, dirty,
               selfTriggered, sigHandled, lastOutcome, artifactFrom>>

\* the user saves the page file in an editor
UserSave(text) ==
  /\ mode = "pages"
  /\ saves < MaxSaves
  /\ ~pageFile.exists \/ pageFile.content # text
  /\ pageFile' = [pageFile EXCEPT !.exists = TRUE, !.content = text, !.by = "user"]
  /\ pageEvents' = Append(pageEvents, EventFor(pageFile.exists, "user", saves + 1))
  /\ saves' = saves + 1
  /\ UNCHANGED <<routeVars, pluginVars, envVars, handlers, pageWrites, overwritten>>

\* the user deletes the page file; unlink has no handler
UserDelete ==
  /\ mode = "pages"
  /\ saves < MaxSaves
  /\ pageFile.exists
  /\ pageFile' = [pageFile EXCEPT !.exists = FALSE, !.content = <<>>, !.by = "user"]
  /\ saves' = saves + 1
  /\ UNCHANGED <<routeVars, pluginVars, envVars, pageEvents, handlers, pageWrites,
                 overwritten>>

\* startPageWatcher lines 229-241: an event is delivered and its handler
\* runs up to its first await
PageEvent ==
  /\ mode = "pages"
  /\ pageEvents # <<>>
  /\ pageEvents' = Tail(pageEvents)
  /\ LET h == HandlerStarts(Head(pageEvents), pageFile.exists, saves)
     IN  handlers' = IF h = Finished THEN handlers ELSE Append(handlers, h)
  /\ UNCHANGED <<routeVars, pluginVars, envVars, pageFile, pageWrites, overwritten, saves>>

\* `await stat(filePath)` settles (lines 129-134); a file that is gone makes
\* stat throw, and the catch answers true
StatSettles(i) ==
  /\ handlers[i].pc = "stat"
  /\ LET h == [handlers[i] EXCEPT !.seen = saves]
         exists == pageFile.exists
     IN  handlers' =
           IF ~exists THEN Resumed(i, needsTemplateReturns(h, exists, TRUE))
           ELSE IF needsTemplateBySize(Len(pageFile.content)) = "true"
           THEN Resumed(i, needsTemplateReturns(h, exists, TRUE))
           ELSE Resumed(i, [h EXCEPT !.pc = "read"])
  /\ UNCHANGED <<routeVars, pluginVars, envVars, pageFile, pageEvents, pageWrites,
                 overwritten, saves>>

\* `await readFile(filePath)` of needsTemplate settles (lines 137-159)
ReadSettles(i) ==
  /\ handlers[i].pc = "read"
  /\ LET h == [handlers[i] EXCEPT !.seen = saves]
         exists == pageFile.exists
     IN  handlers' =
           Resumed(i, needsTemplateReturns(h, exists,
                        IF ~exists THEN TRUE
                        ELSE needsTemplateByContent(pageFile.content)))
  /\ UNCHANGED <<routeVars, pluginVars, envVars, pageFile, pageEvents, pageWrites,
                 overwritten, saves>>

\* `await readFile(filePath)` of processPageFile settles (lines 179-201):
\* substantial content is kept with a warning, anything else is written over
RereadSettles(i) ==
  /\ handlers[i].pc = "reread"
  /\ LET h == [handlers[i] EXCEPT !.seen = saves]
     IN  handlers' =
           IF pageFile.exists /\ hasSubstantialContent(pageFile.content)
           THEN Resumed(i, Finished)
           ELSE Resumed(i, [h EXCEPT !.pc = "write"])
  /\ UNCHANGED <<routeVars, pluginVars, envVars, pageFile, pageEvents, pageWrites,
                 overwritten, saves>>

\* `await writeFile(filePath, template)` settles (line 204)
WriteSettles(i) ==
  /\ handlers[i].pc = "write"
  /\ pageFile' = [pageFile EXCEPT !.exists = TRUE,
                                  !.content = TemplateOf(pageFile.path),
                                  !.by = "watcher"]
  /\ overwritten' = overwritten \cup
        {[exists |-> pageFile.exists, content |-> pageFile.content,
          by |-> pageFile.by,
          unseen |-> saves > handlers[i].seen,
          cause |-> handlers[i].cause,
          stale |-> saves > handlers[i].gen]}
  /\ pageWrites' = pageWrites + 1
  /\ pageEvents' = Append(pageEvents, EventFor(pageFile.exists, "write", saves))
  /\ handlers' = Resumed(i, Finished)
  /\ UNCHANGED <<routeVars, pluginVars, envVars, saves>>

\* page-watcher.ts is started over a page file that is missing or holds
\* what somebody saved; `ignoreInitial: false` raises 'add' for a file that
\* is there
InitPage ==
  /\ mode = "pages"
  /\ nodeEnv = "development"
  /\ config = defaultConfig
  /\ files = <<>>
  /\ dirOrder = "forward"
  /\ outWritable = TRUE
  /\ pc = "loop"
  /\ Idle
  /\ options = "undefined"
  /\ PluginIdle
  /\ EnvIdle
  /\ \E dirs \in WatchedPageDirs : \E content \in UserTexts : \E exists \in BOOLEAN :
        /\ exists \/ content = EmptyText
        /\ pageFile = [path |-> PAGES_DIR \o dirs \o <<PageFileName>>,
                       exists |-> exists, content |-> content, by |-> "user"]
        /\ pageEvents = IF exists
                        THEN <<[kind |-> "add", cause |-> "initial", gen |-> 0]>>
                        ELSE <<>>
  /\ handlers = <<>>
  /\ pageWrites = 0
  /\ overwritten = {}
  /\ saves = 0

\* the page watcher and the user of the editor
NextPage ==
  \/ \E text \in SavedTexts : UserSave(text)
  \/ UserDelete
  \/ PageEvent
  \/ \E i \in 1..Len(handlers) : StatSettles(i)
  \/ \E i \in 1..Len(handlers) : ReadSettles(i)
  \/ \E i \in 1..Len(handlers) : RereadSettles(i)
  \/ \E i \in 1..Len(handlers) : WriteSettles(i)

SpecPage == InitPage /\ [][NextPage]_vars

(***************************************************************************)
(* kaizar add:env (commands/add/env.ts, lib/utils.ts)                      *)
(***************************************************************************)
\* String.prototype.toUpperCase
upperCased(s) == [k \in 1..Len(s) |-> toUpperCase(s[k])]

\* validateVarName(varName).valid: upper case, a letter or underscore
\* first, then letters, digits and underscores
validateVarName(varName) ==
  /\ varName = upperCased(varName)
  /\ varName # <<>>
  /\ varName[1] \in Range(UpperCase) \cup {"_"}
  /\ \A k \in 1..Len(varName) : varName[k] \in Range(UpperCase) \cup Digits \cup {"_"}

NextPublicPrefix == <<"N","E","X","T","_","P","U","B","L","I","C","_">>

\* client variables are prefixed with NEXT_PUBLIC_ unless they have it
finalVarName(varName, isClient) ==
  IF isClient /\ ~StartsWithAt(varName, NextPublicPrefix, 1)
  THEN NextPublicPrefix \o varName
  ELSE varName

\* the files the command updates: those found, or these two
filePaths == <<".env", ".env.example">>

\* the schema file addVarToT3Env edits
envSchemaFile(isClient) ==
  IF isClient THEN "config/env/client.ts" ELSE "config/env/server.ts"

\* a command that treats every cancelled prompt like a cancelled name
onCancel_skipping(prompt) == "skip"

\* what the command does when the user cancels a prompt: a cancelled name
\* is skipped (`break`), every configuration prompt ends the command with
\* process.exit(1)
onCancel(prompt) == IF prompt = "varName" THEN "skip" ELSE "exit"

\* lines 434-481: addVarToEnvFile for every file and configuration, the
\* file formatted after its variables, then the schema for every
\* configuration; every element is one writeFileSync
WritesFor(configs) ==
  LET perFile(f) ==
        [k \in 1..Len(configs) |->
           [file |-> f, var |-> configs[k].finalVarName,
            section |-> configs[k].sectionName]]
        \o <<[file |-> f, var |-> <<>>, section |-> <<>>]>>
  IN  perFile(filePaths[1]) \o perFile(filePaths[2])
      \o [k \in 1..Len(configs) |->
            [file |-> envSchemaFile(configs[k].isClient),
             var |-> configs[k].finalVarName, section |-> <<>>]]

\* the command line arguments explored
ApiKeyName == <<"A","P","I","_","K","E","Y">>
PublicUrlName == <<"N","E","X","T","_","P","U","B","L","I","C","_","U","R","L">>
LowerCaseName == <<"d","b","_","u","r","l">>
EnvArgs == { <<ApiKeyName>>, <<ApiKeyName, PublicUrlName>>,
             <<LowerCaseName, ApiKeyName>>, <<LowerCaseName>> }

\* getAvailableSections() of the .env.example that is there
AvailableSections == { <<"A","p","p">> }
NewSectionName == <<"m","a","i","l">>
VarTypes == {"string", "url", "string-min"}
MinLengths == {1, 8}
Cancel == "cancel"

NoConfig == [varName |-> <<>>]

\* the command has ended with process.exit(code)
EnvExited(code) ==
  /\ envPc' = [envPc EXCEPT !.at = "exited"]
  /\ envExit' = code
  /\ UNCHANGED <<envTodo, varConfigs, envWrites>>

\* varConfigs.push(...) for the variable in hand (lines 420-430); after the
\* last variable the files are written (lines 432-481)
ConfigStored(cfg) ==
  /\ varConfigs' = Append(varConfigs, cfg)
  /\ envTodo' = Tail(envTodo)
  /\ IF Tail(envTodo) = <<>>
     THEN /\ envWrites' = envWrites \o WritesFor(Append(varConfigs, cfg))
          /\ envPc' = [envPc EXCEPT !.at = "done", !.cur = NoConfig]
          /\ envExit' = 0
     ELSE /\ envPc' = [envPc EXCEPT !.at = "section", !.cur = NoConfig]
          /\ UNCHANGED <<envWrites, envExit>>

\* the user cancelled the prompt: the command exits, or goes on without
\* the variable in hand
PromptCancelled(prompt) ==
  IF onCancel(prompt) = "exit"
  THEN /\ envPc' = [envPc EXCEPT !.at = "exited", !.cancelled = TRUE]
       /\ envExit' = 1
       /\ UNCHANGED <<envTodo, varConfigs, envWrites>>
  ELSE /\ envTodo' = Tail(envTodo)
       /\ varConfigs' = varConfigs
       /\ IF Tail(envTodo) = <<>>
          THEN /\ envWrites' = envWrites \o WritesFor(varConfigs)
               /\ envPc' = [envPc EXCEPT !.at = "done", !.cur = NoConfig,
                                         !.cancelled = TRUE]
               /\ envExit' = 0
          ELSE /\ envPc' = [envPc EXCEPT !.at = "section", !.cur = NoConfig,
                                         !.cancelled = TRUE]
               /\ UNCHANGED <<envWrites, envExit>>

envRest == <<routeVars, pluginVars, pageVars>>

\* lines 143-205: the names are validated; a name that is not valid is
\* asked again, and skipped when that prompt is cancelled
NamePrompt ==
  /\ envPc.at = "names"
  /\ LET varName == Head(envTodo)
         finish(validated) ==
           IF Tail(envTodo) # <<>>
           THEN /\ envTodo' = Tail(envTodo)
                /\ envPc' = [envPc EXCEPT !.validated = validated]
                /\ UNCHANGED <<varConfigs, envWrites, envExit>>
           ELSE IF validated = <<>>
           THEN /\ envTodo' = <<>>
                /\ envPc' = [envPc EXCEPT !.at = "exited", !.validated = validated]
                /\ envExit' = 1
                /\ UNCHANGED <<varConfigs, envWrites>>
           ELSE /\ envTodo' = validated
                /\ envPc' = [envPc EXCEPT !.at = "section", !.validated = validated]
                /\ UNCHANGED <<varConfigs, envWrites, envExit>>
     IN  IF validateVarName(varName)
         THEN finish(Append(envPc.validated, varName))
         ELSE \E answer \in {Cancel, "retyped"} :
                 IF answer = Cancel
                 THEN finish(envPc.validated)
                 ELSE finish(Append(envPc.validated, upperCased(varName)))
  /\ UNCHANGED envRest

\* lines 236-275: the section, chosen or new
SectionPrompt ==
  /\ envPc.at = "section"
  /\ \/ PromptCancelled("section")
     \/ /\ envPc' = [envPc EXCEPT !.at = "newSection"]
        /\ UNCHANGED <<envTodo, varConfigs, envWrites, envExit>>
     \/ \E s \in AvailableSections :
           /\ envPc' = [envPc EXCEPT !.at = "envType",
                          !.cur = [varName |-> Head(envTodo),
                                   sectionName |-> upperCased(s)]]
           /\ UNCHANGED <<envTodo, varConfigs, envWrites, envExit>>
  /\ UNCHANGED envRest

NewSectionPrompt ==
  /\ envPc.at = "newSection"
  /\ \/ PromptCancelled("newSection")
     \/ /\ envPc' = [envPc EXCEPT !.at = "envType",
                       !.cur = [varName |-> Head(envTodo),
                                sectionName |-> upperCased(NewSectionName)]]
        /\ UNCHANGED <<envTodo, varConfigs, envWrites, envExit>>
  /\ UNCHANGED envRest

\* lines 280-303: server or client, and the final name
EnvTypePrompt ==
  /\ envPc.at = "envType"
  /\ \/ PromptCancelled("envType")
     \/ \E isClient \in BOOLEAN :
           /\ envPc' = [envPc EXCEPT !.at = "type",
                          !.cur = [varName |-> envPc.cur.varName,
                                   sectionName |-> envPc.cur.sectionName,
                                   isClient |-> isClient,
                                   finalVarName |->
                                     finalVarName(envPc.cur.varName, isClient)]]
           /\ UNCHANGED <<envTodo, varConfigs, envWrites, envExit>>
  /\ UNCHANGED envRest

\* lines 305-319: the type
TypePrompt ==
  /\ envPc.at = "type"
  /\ \/ PromptCancelled("type")
     \/ \E t \in VarTypes :
           /\ envPc' = [envPc EXCEPT
                          !.at = IF t = "string-min" THEN "minLength"
                                 ELSE "valueChoice",
                          !.cur = [varName |-> envPc.cur.varName,
                                   sectionName |-> envPc.cur.sectionName,
                                   isClient |-> envPc.cur.isClient,
                                   finalVarName |-> envPc.cur.finalVarName,
                                   varType |-> t, minLength |-> 0]]
           /\ UNCHANGED <<envTodo, varConfigs, envWrites, envExit>>
  /\ UNCHANGED envRest

\* lines 321-338: the minimum length of a string-min
MinLengthPrompt ==
  /\ envPc.at = "minLength"
  /\ \/ PromptCancelled("minLength")
     \/ \E n \in MinLengths :
           /\ envPc' = [envPc EXCEPT !.at = "valueChoice", !.cur.minLength = n]
           /\ UNCHANGED <<envTodo, varConfigs, envWrites, envExit>>
  /\ UNCHANGED envRest

\* lines 340-362 and 406-417: the suggested default or a custom value; a
\* suggested value that fails its schema ends the command
ValueChoicePrompt ==
  /\ envPc.at = "valueChoice"
  /\ \/ PromptCancelled("valueChoice")
     \/ /\ envPc' = [envPc EXCEPT !.at = "customValue"]
        /\ UNCHANGED <<envTodo, varConfigs, envWrites, envExit>>
     \/ \E valid \in BOOLEAN :
           IF valid THEN ConfigStored(envPc.cur) ELSE EnvExited(1)
  /\ UNCHANGED envRest

\* lines 368-405: the custom value, asked until it passes its schema
CustomValuePrompt ==
  /\ envPc.at = "customValue"
  /\ \/ PromptCancelled("customValue")
     \/ \E valid \in BOOLEAN :
           IF valid THEN ConfigStored(envPc.cur)
           ELSE UNCHANGED <<envPc, envTodo, varConfigs, envWrites, envExit>>
  /\ UNCHANGED envRest

\* `kaizar add:env <vars>` is run
InitEnv ==
  /\ mode = "addenv"
  /\ nodeEnv = "development"
  /\ config = defaultConfig
  /\ files = <<>>
  /\ dirOrder = "forward"
  /\ outWritable = TRUE
  /\ pc = "shell"
  /\ Idle
  /\ options = "undefined"
  /\ PluginIdle
  /\ PageIdle
  /\ envPc = [at |-> "names", validated |-> <<>>, cur |-> NoConfig,
              cancelled |-> FALSE]
  /\ envTodo \in EnvArgs
  /\ varConfigs = <<>>
  /\ envWrites = <<>>
  /\ envExit = -1

NextEnv ==
  \/ NamePrompt
  \/ SectionPrompt
  \/ NewSectionPrompt
  \/ EnvTypePrompt
  \/ TypePrompt
  \/ MinLengthPrompt
  \/ ValueChoicePrompt
  \/ CustomValuePrompt

SpecEnv == InitEnv /\ [][NextEnv]_vars

(***************************************************************************)
(* Properties of the watcher                                               *)
(***************************************************************************)

\* C1 (debounce): at most one debounce timer is pending; a regeneration is
\* triggered only when DEBOUNCE_MS have passed since the last file event of
\* its burst, once for the whole burst; and every delivered event leaves a
\* timer that will trigger one.
C1_Debounce ==
  /\ Cardinality(timers) <= 1
  /\ lastTrigger # NeverFired =>
       lastTrigger.gap >= DEBOUNCE_MS /\ lastTrigger.events >= 1
  /\ (burstEvents > 0 /\ pc # "exited") =>
       \E t \in timers : t.id = debounceTimer

\* a burst of two events, no more than DEBOUNCE_MS apart, was answered by
\* one trigger, and the generator it started is running
C1_Witness ==
  /\ lastTrigger # NeverFired
  /\ lastTrigger.events >= 2
  /\ pc = "execTimer"
  /\ Len(children) = 1

\* C2 (mutual exclusion): a watcher process never has two regenerations
\* running at once.
C2_MutualExclusion ==
  /\ Len(children) <= 1
  /\ children # <<>> => isGenerating /\ pc \in {"execInit", "execTimer"}

\* a file event is waiting while a regeneration runs: it is not served
\* before the run has ended
C2_Witness ==
  /\ Len(children) = 1
  /\ pc = "execTimer"
  /\ notifs > 0

\* the watcher is open and has nothing left to do
Quiet ==
  /\ pc = "loop"
  /\ watcher = "open"
  /\ timers = {}
  /\ notifs = 0
  /\ children = <<>>

\* C7 (no lost update): the watcher never exits while a regeneration is in
\* flight; every event on a watched file is followed by the start of a
\* regeneration, as long as the watcher is open and the process runs; and
\* once route-watcher.ts is quiet after a successful run, the artifact is
\* what the generator makes of the tree as it is.
C7_NoLostUpdate ==
  /\ [](pc = "exited" => children = <<>>)
  /\ []((mode = "standalone" /\ Quiet /\ lastOutcome = "ok") =>
          artifact = generateRoutesFile(Tree, CollectAllRoutes(Tree, dirOrder, config)))
  /\ (dirty ~> (~dirty \/ watcher # "open" \/ pc = "exited"))

\* a watched file has changed while a regeneration is in flight
C7_Witness ==
  /\ dirty
  /\ pc = "execTimer"
  /\ Len(children) = 1
  /\ childPc[1] = "write"
  /\ ~children[1].clean
  /\ notifs > 0

\* C8 (watch mode survives failure): a generator that throws exits
\* non-zero; the watcher logs the failure, resets isGenerating, does not
\* exit with an error and goes back to its event loop.
C8_WatchSurvives ==
  /\ lastExit.threw => lastExit.code # 0
  /\ (lastExit.code # 0 /\ pc = "loop") => lastOutcome = "failed"
  /\ (lastOutcome = "failed" /\ nodeEnv # "production") =>
       /\ exitCode # 1
       /\ pc = "exited" => sigHandled
  /\ (lastOutcome = "failed" /\ pc = "loop") => ~isGenerating

\* after a failed run the next file event has started a new regeneration
C8_Witness ==
  /\ lastOutcome = "failed"
  /\ pc = "execTimer"
  /\ Len(children) = 1
  /\ exitCode = -1

\* C9 (no self-triggered loop): the write of the artifact never raises an
\* event on the watched patterns.
C9_NoSelfTrigger == ~selfTriggered

\* C10 (clean shutdown): once the signal handler has run, the watcher is
\* closed and the process has exited.
C10_CleanShutdown ==
  sigHandled => (watcher = "closed" /\ pc = "exited")

(***************************************************************************)
(* Properties of one generation run                                        *)
(***************************************************************************)

Collected(i) ==
  IF childPc[i] \in {"emit", "maps", "write"} THEN children[i].allRoutes ELSE <<>>

\* C4 (one-to-one route identity): in the records of one run no two share a
\* path and no two share a routeId.
C4_OneToOne ==
  \A i \in 1..Len(children) :
     \A a, b \in 1..Len(Collected(i)) :
        a # b => /\ Collected(i)[a].path # Collected(i)[b].path
                 /\ Collected(i)[a].routeId # Collected(i)[b].routeId

\* two records of different paths, neither overridden, have the same routeId
UnmappedCollision(routes) ==
  \E a, b \in 1..Len(routes) :
     /\ routes[a].path # routes[b].path
     /\ routes[a].routeId = routes[b].routeId
     /\ ~HasKey(config.routeIdMap, routes[a].path)
     /\ ~HasKey(config.routeIdMap, routes[b].path)

\* C5 (collision fatality): a run whose records collide on a routeId writes
\* no artifact, so the artifact never holds such a collision.
C5_CollisionFatal ==
  artifact # NoFile => ~UnmappedCollision(artifact.routes)

\* the names of the bracketed segments of a path, in path order
BracketNames(path) ==
  LET segs == SelectSeq(split(path, {"/"}), isParamPart)
  IN [k \in 1..Len(segs) |-> slice1(segs[k])]

\* C6 (params match brackets): the keys of params of every record are the
\* names of the bracketed segments of its path, in path order.
C6_ParamsMatchBrackets ==
  \A i \in 1..Len(children) :
     \A a \in 1..Len(Collected(i)) :
        Keys(Collected(i)[a].params) = BracketNames(Collected(i)[a].path)

\* C11: the artifact changes only by the one write of a run that has
\* completed collection and both emission passes, and it then holds that
\* run's whole content; a run that ends with an exception leaves the
\* artifact as it was.
C11_LastGoodArtifact ==
  [][ /\ artifact' # artifact =>
           \E i \in 1..Len(children) :
              /\ childPc[i] = "write"
              /\ children[i].content # NoFile
              /\ artifact' = children[i].content
              /\ Len(children') = Len(children) - 1
      /\ (Len(children') < Len(children) /\ lastExit'.threw) =>
           artifact' = artifact ]_vars

\* a run has failed in collection while an artifact of an earlier run exists
C11_Witness ==
  /\ artifact # NoFile
  /\ lastExit.threw
  /\ children = <<>>
  /\ CollectionThrows(Tree, config)

\* C12: in the artifact the route table, RouteParamsMap, RouteSearchMap and
\* RoutePathToId list the same routes in the same order, and every route's
\* parameter and search shape in the table is the shape its map holds.
C12_SelfConsistent ==
  artifact # NoFile =>
    /\ Len(artifact.RouteParamsMap) = Len(artifact.routes)
    /\ Len(artifact.RouteSearchMap) = Len(artifact.routes)
    /\ Len(artifact.RoutePathToId) = Len(artifact.routes)
    /\ \A i \in 1..Len(artifact.routes) :
          /\ artifact.RouteParamsMap[i] =
               <<artifact.routes[i].routeId, artifact.routes[i].params>>
          /\ artifact.RouteSearchMap[i] =
               <<artifact.routes[i].routeId, artifact.routes[i].search>>
          /\ artifact.RoutePathToId[i] =
               <<artifact.routes[i].path, artifact.routes[i].routeId>>

(***************************************************************************)
(* Properties of the records and of the extraction                         *)
(***************************************************************************)

\* the directory segments between the root and the file name
DirsBetween(root, filePath) == SubSeq(filePath, Len(root) + 1, Len(filePath) - 1)

\* "/" and the segment that follows the first `(apps)` segment of the root,
\* /admin when there is none
ApplicationPrefix(root) ==
  LET at == {j \in 1..(Len(root) - 1) : root[j] = AppsMarker}
  IN IF at = {} THEN <<"/","a","d","m","i","n">>
     ELSE <<"/">> \o root[(CHOOSE j \in at : \A k \in at : j <= k) + 1]

RECURSIVE SlashJoined(_)
\* every segment preceded by a slash
SlashJoined(dirs) ==
  IF dirs = <<>> THEN <<>> ELSE <<"/">> \o Head(dirs) \o SlashJoined(Tail(dirs))

\* the names inside the segments of the form [name], in order
BracketedDirs(dirs) ==
  LET bracketed == SelectSeq(dirs, LAMBDA d : Len(d) >= 3 /\ d[1] = "[" /\ d[Len(d)] = "]")
  IN [k \in 1..Len(bracketed) |-> SubSeq(bracketed[k], 2, Len(bracketed[k]) - 1)]

\* C13 (path mapping): the route of a page file in a directory below a
\* root is the application prefix followed by the directory segments
\* between the root and the file, brackets kept, and the parameter names taken from the path
\* are the names of its bracketed segments in path order; they are the keys
\* of params in the record of a page that was read.
C13_PathMapping ==
  \A i \in 1..Len(children) :
     \A a \in 1..Len(Collected(i)) :
        LET r == Collected(i)[a]
            root == pathSegments(PAGES_DIRS(config)[1])
            dirs == DirsBetween(root, r.filePath)
            matches == paramMatches(r.path)
        IN /\ dirs # <<>> => r.path = ApplicationPrefix(root) \o SlashJoined(dirs)
           /\ [k \in 1..Len(matches) |-> slice1(matches[k])] = BracketedDirs(dirs)
           /\ files[r.filePath].readable => Keys(r.params) = BracketedDirs(dirs)

\* brands/[id]/page.tsx below the admin root was collected as
\* /admin/brands/[id] with the one parameter id
C13_Witness ==
  \E i \in 1..Len(children) :
     \E a \in 1..Len(Collected(i)) :
        /\ Collected(i)[a].path = BrandDetailPath
        /\ Keys(Collected(i)[a].params) = <<SubSeq(IdSeg, 2, 3)>>
        /\ DirsBetween(pathSegments(joinCwd(AdminPagesDir)), Collected(i)[a].filePath)
             = <<BrandsSeg, IdSeg>>

RECURSIVE CamelCased(_, _)
\* s without its hyphens and underscores, every character that follows one
\* in upper case
CamelCased(s, afterSeparator) ==
  IF s = <<>> THEN <<>>
  ELSE IF Head(s) \in {"-", "_"} THEN CamelCased(Tail(s), TRUE)
  ELSE <<IF afterSeparator THEN toUpperCase(Head(s)) ELSE Head(s)>>
         \o CamelCased(Tail(s), FALSE)

RECURSIVE CapitalisedNames(_)
\* the names of bracketed segments, each with its first letter in upper case
CapitalisedNames(segs) ==
  IF segs = <<>> THEN <<>>
  ELSE <<toUpperCase(Head(segs)[2])>> \o SubSeq(Head(segs), 3, Len(Head(segs)) - 1)
         \o CapitalisedNames(Tail(segs))

\* the id of the directories dirs, of which the first is no parameter
DerivedId(dirs) ==
  LET literal == {j \in 1..Len(dirs) : dirs[j][1] # "["}
      last == CHOOSE j \in literal : \A k \in literal : k <= j
      trailing == SubSeq(dirs, last + 1, Len(dirs))
  IN CamelCased(dirs[last], FALSE) \o CapitalisedNames(trailing)
       \o (IF trailing = <<>> THEN <<>> ELSE <<"D","e","t","a","i","l">>)

BrandsIdDetail == <<"b","r","a","n","d","s","I","d","D","e","t","a","i","l">>
BrandsIdIddDetail == <<"b","r","a","n","d","s","I","d","I","d","d","D","e","t","a","i","l">>

C15_OverridePrecedence ==
  artifact # NoFile =>
    \A i \in 1..Len(artifact.routes) :
       LET path == artifact.routes[i].path
           id == IF HasKey(config.routeIdMap, path)
                 THEN Get(config.routeIdMap, path)
                 ELSE pathToRouteId(path)
       IN /\ artifact.routes[i].routeId = id
          /\ artifact.RouteId[i] = id
          /\ artifact.RouteParamsMap[i][1] = id
          /\ artifact.RouteSearchMap[i][1] = id
          /\ artifact.RoutePathToId[i] = <<path, id>>

\* an artifact with /admin/brands/[id] under its override brandDetail and
\* with routes that have no override
C15_Witness ==
  /\ artifact # NoFile
  /\ HasKey(config.routeIdMap, BrandDetailPath)
  /\ \E i \in 1..Len(artifact.routes) :
        /\ artifact.routes[i].path = BrandDetailPath
        /\ artifact.routes[i].routeId = BrandDetailId
        /\ BrandDetailId # pathToRouteId(BrandDetailPath)
  /\ \E i \in 1..Len(artifact.routes) :
        ~HasKey(config.routeIdMap, artifact.routes[i].path)

\* the route matches the pattern, as a substring or as a regular expression
Matches(route, pattern) == includes(route, pattern) \/ RegExpMatches(route, pattern)

\* the route that the page file f below the first root stands for; that of
\* a page in the root itself is written with a closing slash
RouteOf(f) ==
  LET root == pathSegments(PAGES_DIRS(config)[1])
      dirs == DirsBetween(root, f)
  IN ApplicationPrefix(root) \o (IF dirs = <<>> THEN <<"/">> ELSE SlashJoined(dirs))

TabKey == <<"t","a","b">>
DocUnionType == <<"'","d","e","t","a","i","l","s","'"," ","|"," ","'","s","e","t","t","i","n","g","s","'">>
ShortUnionType == <<"'","a","'","|","'","b","'">>

\* C17 (generic-form extraction): from `createPage<P, S>(` the record's
\* searchParams maps each name of S to its type text as written, without
\* the braces of S and without separators: the page of the documentation
\* gives tab the type 'details' | 'settings', and a search type { tab:
\* 'a'|'b' }, with or without a closing `;`, gives tab the type 'a'|'b'.
C17_GenericExtraction ==
  \A i \in 1..Len(children) :
     \A a \in 1..Len(Collected(i)) :
        LET r == Collected(i)[a]
            file == files[r.filePath]
        IN file.readable =>
             /\ file.text = DocGenericText =>
                  r.searchParams = << <<TabKey, DocUnionType>> >>
             /\ file.text \in {GenericText, SemiGenericText} =>
                  r.searchParams = << <<TabKey, ShortUnionType>> >>

PageKey == <<"p","a","g","e">>
SortKey == <<"s","o","r","t">>
DocSortType == <<"'","n","a","m","e","'"," ","|"," ","'","d","a","t","e","'">>
ShortSortType == <<"'","n","'","|","'","d","'">>

\* C18 (fallback extraction): from `searchParams: { ... }` of the call's
\* argument an entry `name: value as Type` is recorded with Type and an
\* entry without `as` with string: the page of the documentation gives
\* page the type string and sort the type 'name' | 'date'.
C18_FallbackExtraction ==
  \A i \in 1..Len(children) :
     \A a \in 1..Len(Collected(i)) :
        LET r == Collected(i)[a]
            file == files[r.filePath]
        IN file.readable =>
             /\ file.text = DocConfigText =>
                  r.searchParams = << <<PageKey, StringType>>, <<SortKey, DocSortType>> >>
             /\ file.text = ConfigText =>
                  r.searchParams = << <<SortKey, ShortSortType>> >>

\* the route matches no exclude pattern, and an include pattern if there
\* is any
PassesFilters(route) ==
  /\ \A k \in 1..Len(config.exclude) : ~Matches(route, config.exclude[k])
  /\ \/ config.include = <<>>
     \/ \E k \in 1..Len(config.include) : Matches(route, config.include[k])

\* the texts of the catalogue with neither `createPage<...>(` nor
\* `searchParams: {...}`
PatternlessTexts == {PlainText, BareCallText}

\* C19 (graceful degradation): a readable page file with neither pattern
\* that passes the filters gives exactly one record; its params are the
\* bracketed segments of its path, each typed string, its searchParams are
\* empty, and the extractor returns no params and no searchParams for it.
C19_GracefulDegradation ==
  \A i \in 1..Len(children) :
     childPc[i] \in {"emit", "maps", "write"} =>
       \A f \in DOMAIN files :
          (/\ files[f].readable
           /\ files[f].text \in PatternlessTexts
           /\ PassesFilters(RouteOf(f))) =>
            LET recs == {a \in 1..Len(Collected(i)) : Collected(i)[a].filePath = f}
                names == BracketedDirs(DirsBetween(pathSegments(PAGES_DIRS(config)[1]), f))
                extracted == parseCreatePageTypes(files[f].text)
            IN /\ Cardinality(recs) = 1
               /\ \A a \in recs :
                     /\ Collected(i)[a].params =
                          [k \in 1..Len(names) |-> <<names[k], StringType>>]
                     /\ Collected(i)[a].searchParams = <<>>
               /\ extracted.params = <<>>
               /\ extracted.searchParams = <<>>

\* a plain page below brands/[id] was collected with id typed string
C19_Witness ==
  \E i \in 1..Len(children) :
     \E a \in 1..Len(Collected(i)) :
        /\ files[Collected(i)[a].filePath].readable
        /\ files[Collected(i)[a].filePath].text \in PatternlessTexts
        /\ Collected(i)[a].params = << <<SubSeq(IdSeg, 2, 3), StringType>> >>
        /\ Collected(i)[a].searchParams = <<>>

\* C20 (unreadable page file): a page file that cannot be read, and that
\* passes the filters, is registered all the same: the run goes on, and
\* its one record has the bracketed segments of its path as params, typed
\* string, and empty searchParams.
C20_UnreadablePage ==
  \A i \in 1..Len(children) :
     childPc[i] \in {"emit", "maps", "write"} =>
       \A f \in DOMAIN files :
          (~files[f].readable /\ PassesFilters(RouteOf(f))) =>
            LET recs == {a \in 1..Len(Collected(i)) : Collected(i)[a].filePath = f}
                names == BracketedDirs(DirsBetween(pathSegments(PAGES_DIRS(config)[1]), f))
            IN /\ Cardinality(recs) = 1
               /\ \A a \in recs :
                     /\ Collected(i)[a].params =
                          [k \in 1..Len(names) |-> <<names[k], StringType>>]
                     /\ Collected(i)[a].searchParams = <<>>

\* s can be written as an identifier of TypeScript: a letter, `_` or `$`,
\* then letters, digits, `_` and `$`
IsIdentifier(s) ==
  /\ s # <<>>
  /\ s[1] \in (WordChars \ Digits) \cup {"$"}
  /\ \A k \in 2..Len(s) : s[k] \in WordChars \cup {"$"}

\* C21 (legal identifiers): the routeId that the collector derives for a
\* page path, whatever the names of its directories, is an identifier and
\* can be written without quotes as a key of `routes`.
C21_LegalIdentifiers ==
  \A i \in 1..Len(children) :
     \A a \in 1..Len(Collected(i)) :
        ~HasKey(config.routeIdMap, Collected(i)[a].path) =>
           IsIdentifier(Collected(i)[a].routeId)

(***************************************************************************)
(* C30                                                                     *)
(***************************************************************************)
\* C30 (plugin initialises once): however often withRouteGeneration is
\* called in one process, the initial generation runs at most once and at
\* most one watcher, with one set of signal handlers, is created; a call
\* creates no watcher when watching is disabled by its option, or by the
\* configuration when the option is absent, or when NODE_ENV is production
C30_InitialisesOnce ==
  [][/\ initialRuns' <= 1
     /\ watchersCreated' <= 1
     /\ handlerSets' <= 1
     /\ watchersCreated' > watchersCreated =>
           /\ nodeEnv # "production"
           /\ options' # "false"
           /\ options' = "undefined" => config.watch]_vars

\* all the calls were made, the routes were generated once, and the last
\* call asked for a watcher when there was one already
C30_Witness ==
  /\ calls = MaxCalls
  /\ initialRuns = 1
  /\ watchersCreated = 1
  /\ options = "true"
  /\ sigHandled
  /\ pc = "loop"

(***************************************************************************)
(* Properties of the page-template watcher                                 *)
(***************************************************************************)
\* C22 (authored pages are never destroyed): a template is written only
\* over a file that is missing or that holds neither the createPage
\* pattern, whatever its size, nor substantial content; told of the writes
\* whose handler had seen the content it replaced
C22_NeverDestroysAuthored ==
  \A o \in overwritten :
     (o.exists /\ ~o.unseen) =>
        /\ ~includes(o.content, CreatePageWord)
        /\ ~hasSubstantialContent(o.content)

\* C28 (quiescence): a template that was written needs no template; the
\* handler of the change event a template write raised writes again only
\* when the user has saved the file since; without saves there is at most
\* one write
C28_Quiescence ==
  /\ (pageFile.exists /\ pageFile.by = "watcher") =>
        ~needsTemplate([exists |-> TRUE, content |-> pageFile.content])
  /\ \A o \in overwritten : o.cause = "write" => o.stale
  /\ saves = 0 => pageWrites <= 1

\* a template with parameters was written, its change event was handled
\* and nothing is left to do
C28_Witness ==
  /\ pageWrites = 1
  /\ saves = 0
  /\ pageFile.by = "watcher"
  /\ pageRouteFromPath(pageFile.path).params # <<>>
  /\ pageEvents = <<>>
  /\ handlers = <<>>

\* what processPageFile requires of a file it writes over: needsTemplate
\* answers true and the content is not substantial
MayOverwrite(o) ==
  \/ ~o.exists
  \/ /\ needsTemplate([exists |-> TRUE, content |-> o.content])
     /\ ~hasSubstantialContent(o.content)

\* C29 (no check-then-write race): whatever the interleaving of the
\* handlers with the saves of the user, the content a template replaces
\* satisfies the overwrite conditions at the moment of the write
C29_NoCheckThenWriteRace ==
  \A o \in overwritten : MayOverwrite(o)

(***************************************************************************)
(* Properties of the emitted artifact and of the traversal                 *)
(***************************************************************************)
\* C24 (the emitter serializes the records): in the route table and in
\* RouteSearchMap the search-parameter names and type texts of every route
\* are those of searchParams in the route's collected record
C24_EmitterSerializesRecords ==
  \A i \in 1..Len(children) :
     childPc[i] = "write" =>
        \A a \in 1..Len(children[i].allRoutes) :
           /\ children[i].content.routes[a].search =
                children[i].allRoutes[a].searchParams
           /\ children[i].content.RouteSearchMap[a][2] =
                children[i].allRoutes[a].searchParams

\* C25 (zero-segment edge case): the record of a page directly in a root
\* has a path no other record has, and its routeId is not the routeId of
\* the page in the directory `home` of that root
C25_ZeroSegmentHome ==
  \A i \in 1..Len(children) :
     \A a, b \in 1..Len(Collected(i)) :
        LET root == pathSegments(PAGES_DIRS(config)[1])
            ra == Collected(i)[a]
            rb == Collected(i)[b]
        IN (a # b /\ DirsBetween(root, ra.filePath) = <<>>) =>
              /\ ra.path # rb.path
              /\ DirsBetween(root, rb.filePath) = <<HomeId>> =>
                    ra.routeId # rb.routeId

\* the orders in which a directory may list its entries
DirOrders == {"forward", "backward"}

\* C26 (deterministic traversal): the records of a run, and so the
\* artifact, are those of a run over the same files and roots under any
\* other enumeration order of the directories
C26_DeterministicTraversal ==
  \A i \in 1..Len(children) :
     childPc[i] \in {"emit", "maps", "write"} =>
        \A order \in DirOrders :
           CollectAllRoutes(children[i].input.tree, order, config)
             = children[i].allRoutes

(***************************************************************************)
(* Properties of add:env                                                   *)
(***************************************************************************)
\* C27 (all-or-nothing on cancellation): nothing is written before every
\* variable has its configuration, and once the user has cancelled a
\* configuration prompt the command has exited with no write to a .env
\* file or to an env schema file
C27_AllOrNothing ==
  /\ envWrites # <<>> =>
        /\ envTodo = <<>>
        /\ Len(varConfigs) = Len(envPc.validated)
        /\ envWrites = WritesFor(varConfigs)
  /\ (envPc.at # "none" /\ envPc.cancelled) =>
        /\ envWrites = <<>>
        /\ envPc.at = "exited"
        /\ envExit = 1

\* the first variable was configured and a prompt of the second one was
\* cancelled
C27_Witness ==
  /\ envPc.at = "exited"
  /\ envPc.cancelled
  /\ Len(varConfigs) = 1
  /\ Len(envPc.validated) = 2
  /\ envWrites = <<>>

====
